---- MODULE Spec2Model ----
(***************************************************************************)
(* Model of the YSP-4000 serial response parser (ysp4000/commands.py) and  *)
(* of the controller state it feeds (ysp4000/ysp.py).                      *)
(*                                                                         *)
(* Representation.  A Python bytes object is a sequence of integers in     *)
(* 0..255; a Python str is the sequence of its code points, so chr(b) is   *)
(* <<b>> and 'warning' is the sequence of its seven code points.  None is  *)
(* a value that is no string (a one-element sequence holding -1).  An      *)
(* exception raised by a call is recorded as that call's "err" and the     *)
(* object state is the state at the raise: Python objects outlive an       *)
(* exception, and the asyncio data_received callback (ysp.py:120) is       *)
(* called again with the next chunk.                                       *)
(***************************************************************************)
EXTENDS Integers, Sequences, FiniteSets, TLC

(***************************************************************************)
(* Bounds of the model.                                                    *)
(***************************************************************************)
MaxFrames == 3   \* frames the device sends in one behaviour
MaxChunk == 2    \* largest partial chunk the transport delivers
PctMargin == 3   \* percents from -PctMargin to 100 + PctMargin
MaxBuf == 10     \* longest buffer of a handler called by itself
MaxData == 2     \* longest chunk a handler called by itself is given
MaxDelta == 3    \* volume deltas from -MaxDelta to MaxDelta

(***************************************************************************)
(* YspSerialCodes                                                          *)
(***************************************************************************)
NUL == 0
STX == 2
ETX == 3
DLE == 16
DC2 == 18

None == <<-1>>

(***************************************************************************)
(* Frames the device is seen to send (tests/test_commands.py and the       *)
(* comment at the head of commands.py), plus cut and misaligned ones.      *)
(***************************************************************************)
\* b'\x12G0079D09@E0190000A3\x03'
READY_RESP_POWERED_OFF ==
  <<18, 71, 48, 48, 55, 57, 68, 48, 57, 64, 69, 48, 49, 57, 48, 48, 48, 48, 65, 51, 3>>
\* b'\x12G0079D1E' + first 30 data bytes of the powered-on response + b'A3\x03'
READY_RESP_POWERED_ON ==
  <<18, 71, 48, 48, 55, 57, 68, 49, 69, 64, 69, 48, 49, 57, 48, 48, 48, 49, 48, 48, 48,
    57, 69, 55, 48, 48, 52, 48, 49, 48, 48, 48, 48, 49, 56, 49, 56, 49, 48, 65, 51, 3>>
\* b'\x12G0079D09@E01\x10': a configuration frame cut inside its data field
READY_RESP_CUT ==
  <<18, 71, 48, 48, 55, 57, 68, 48, 57, 64, 69, 48, 49, 16>>
\* b'\x12G0079D0\x03': a configuration frame cut inside its len field
READY_RESP_CUT_LEN == <<18, 71, 48, 48, 55, 57, 68, 48, 3>>
\* b'\x021026B2\x03'
OP_RESP_VOLUME_CHANGE1 == <<2, 49, 48, 50, 54, 66, 50, 3>>
\* b'\x0210200\x10' and b'\x0210200\x00': incomplete power off
OP_RESP_POWEROFF_DLE == <<2, 49, 48, 50, 48, 48, 16>>
OP_RESP_POWEROFF_NUL == <<2, 49, 48, 50, 48, 48, 0>>
\* b'\x0210\x03': a report frame cut before its rcmd field
OP_RESP_CUT == <<2, 49, 48, 3>>
\* b'B2\x03': the tail of a report frame whose head was never received
MID_FRAME_TAIL == <<66, 50, 3>>

Catalog ==
  <<READY_RESP_POWERED_OFF, READY_RESP_POWERED_ON, READY_RESP_CUT,
    OP_RESP_VOLUME_CHANGE1, OP_RESP_POWEROFF_DLE, OP_RESP_POWEROFF_NUL,
    OP_RESP_CUT, MID_FRAME_TAIL, READY_RESP_CUT_LEN>>

\* the catalog entries that are complete frames (every layout field present)
CompleteFrames == {1, 2, 4}

(***************************************************************************)
(* Python primitives                                                       *)
(***************************************************************************)
\* index normalisation of a slice bound over a sequence of length n
PyIdx(n, i) ==
  IF i < 0 THEN (IF i + n < 0 THEN 0 ELSE i + n) ELSE (IF i > n THEN n ELSE i)

\* s[a:b]
PySlice(s, a, b) ==
  LET lo == PyIdx(Len(s), a)
      hi == PyIdx(Len(s), b)
  IN IF lo >= hi THEN <<>> ELSE SubSeq(s, lo + 1, hi)

HexVal(c) ==
  IF c >= 48 /\ c <= 57 THEN c - 48
  ELSE IF c >= 65 /\ c <= 70 THEN c - 55
  ELSE IF c >= 97 /\ c <= 102 THEN c - 87
  ELSE -1

BytesSpace == {9, 10, 11, 12, 13, 32}
StrSpace == {9, 10, 11, 12, 13, 28, 29, 30, 31, 32}

\* int(s, 16) for a two-character s whose characters have the hex values v1, v2
\* (-1: no hex digit); ws is the whitespace int() strips, 43 and 45 the signs
PyInt16Pair(s, ws, v1, v2) ==
  IF v1 >= 0 /\ v2 >= 0 THEN [ok |-> TRUE, val |-> 16 * v1 + v2]
  ELSE IF v2 >= 0 /\ (s[1] \in ws \/ s[1] = 43) THEN [ok |-> TRUE, val |-> v2]
  ELSE IF v2 >= 0 /\ s[1] = 45 THEN [ok |-> TRUE, val |-> 0 - v2]
  ELSE IF v1 >= 0 /\ s[2] \in ws THEN [ok |-> TRUE, val |-> v1]
  ELSE [ok |-> FALSE, val |-> 0]

\* int(s, 16) for an s of at most two characters
PyInt16(s, ws) ==
  IF Len(s) = 1 THEN [ok |-> HexVal(s[1]) >= 0, val |-> HexVal(s[1])]
  ELSE IF Len(s) # 2 THEN [ok |-> FALSE, val |-> 0]
  ELSE PyInt16Pair(s, ws, HexVal(s[1]), HexVal(s[2]))

\* bytes.decode() (UTF-8) of a two-byte slice
Decode(bs) ==
  IF \A i \in 1..Len(bs) : bs[i] < 128 THEN [ok |-> TRUE, str |-> bs]
  ELSE IF Len(bs) = 2 /\ bs[1] >= 194 /\ bs[1] <= 223 /\ bs[2] >= 128 /\ bs[2] <= 191
         THEN [ok |-> TRUE, str |-> <<(bs[1] - 192) * 64 + (bs[2] - 128)>>]
  ELSE [ok |-> FALSE, str |-> <<>>]

(***************************************************************************)
(* hfn.py: the human friendly name mapper as far as it can raise           *)
(***************************************************************************)
\* code_to_pct rounding the divisions up
code_to_pct_ceil(num) ==
  IF num >= 238 THEN 100
  ELSE IF 179 <= num /\ num <= 238 THEN num - 178 + 40
  ELSE IF 140 <= num /\ num <= 178 THEN ((num - 138 + 1) \div 2) + 20
  ELSE IF 102 <= num /\ num <= 138 THEN ((num - 98 + 3) \div 4) + 10
  ELSE IF 44 <= num /\ num <= 98 THEN ((num - 44 + 5) \div 6) + 1
  ELSE 0

\* VolumeMap.code_to_hfn after num = int(code, 16): the percent
code_to_pct(num) ==
  IF num >= 238 THEN 100
  ELSE IF 179 <= num /\ num <= 238 THEN num - 178 + 40
  ELSE IF 140 <= num /\ num <= 178 THEN ((num - 138) \div 2) + 20
  ELSE IF 102 <= num /\ num <= 138 THEN ((num - 98) \div 4) + 10
  ELSE IF 44 <= num /\ num <= 98 THEN ((num - 44) \div 6) + 1
  ELSE 0

\* VolumeMap.code_to_hfn, given the outcome p of int(code, 16)
code_to_hfn_of(p) ==
  IF p.ok THEN [err |-> "none", pct |-> code_to_pct(p.val)]
  ELSE [err |-> "ValueError", pct |-> 0]

\* VolumeMap.code_to_hfn: percent of a code, or the exception int() raises
code_to_hfn(code) ==
  IF code = None THEN [err |-> "TypeError", pct |-> 0]
  ELSE code_to_hfn_of(PyInt16(code, StrSpace))

\* make_hfn_mapper.mapper: only the volume mapper computes; the others are dict.get
mapper(key, code) ==
  IF key = "volume" THEN code_to_hfn(code).err ELSE "none"

\* HexDigit writing lowercase letters
HexDigit_lower(v) == IF v < 10 THEN 48 + v ELSE 87 + v

\* the character format(n, 'X') writes for one hex digit v
HexDigit(v) == IF v < 10 THEN 48 + v ELSE 55 + v

\* format(n, 'X') for n >= 0: uppercase, no padding
RECURSIVE PyFormatX(_)
PyFormatX(n) ==
  IF n < 16 THEN <<HexDigit(n)>> ELSE Append(PyFormatX(n \div 16), HexDigit(n % 16))

\* str(n) for an int n >= 0
RECURSIVE PyStr(_)
PyStr(n) == IF n < 10 THEN <<48 + n>> ELSE Append(PyStr(n \div 10), 48 + (n % 10))

\* convert_pct whose third segment starts at 0x8C
convert_pct_shifted(val) ==
  IF val <= 0 THEN <<48, 48>>
  ELSE IF 1 <= val /\ val <= 10 THEN PyFormatX(44 + (val - 1) * 6)
  ELSE IF 10 < val /\ val < 21 THEN PyFormatX(98 + (val - 10) * 4)
  ELSE IF 20 < val /\ val < 41 THEN PyFormatX(140 + (val - 20) * 2)
  ELSE IF 40 < val /\ val <= 100 THEN PyFormatX(178 + (val - 40) * 1)
  ELSE <<69, 69>>

\* convert_pct whose last segment starts at 0x8A
convert_pct_dip(val) ==
  IF val <= 0 THEN <<48, 48>>
  ELSE IF 1 <= val /\ val <= 10 THEN PyFormatX(44 + (val - 1) * 6)
  ELSE IF 10 < val /\ val < 21 THEN PyFormatX(98 + (val - 10) * 4)
  ELSE IF 20 < val /\ val < 41 THEN PyFormatX(138 + (val - 20) * 2)
  ELSE IF 40 < val /\ val <= 100 THEN PyFormatX(138 + (val - 40) * 1)
  ELSE <<69, 69>>

\* VolumeMap.convert_pct
convert_pct(val) ==
  IF val <= 0 THEN <<48, 48>>
  ELSE IF 1 <= val /\ val <= 10 THEN PyFormatX(44 + (val - 1) * 6)
  ELSE IF 10 < val /\ val < 21 THEN PyFormatX(98 + (val - 10) * 4)
  ELSE IF 20 < val /\ val < 41 THEN PyFormatX(138 + (val - 20) * 2)
  ELSE IF 40 < val /\ val <= 100 THEN PyFormatX(178 + (val - 40) * 1)
  ELSE <<69, 69>>

\* what VolumeMap.code_to_hfn returns, given its percent or exception r
code_to_hfn_str(r) ==
  IF r.err # "none" THEN [err |-> r.err, str |-> <<>>]
  ELSE [err |-> "none", str |-> PyStr(r.pct)]

(***************************************************************************)
(* commands.py: response handlers                                          *)
(***************************************************************************)
handlers == <<"ConfigurationCommand", "ReportCommand">>

START_BYTE(kind) == IF kind = "ConfigurationCommand" THEN DC2 ELSE STX
END_BYTE(kind) == ETX

\* the incomplete-response bytes of YspResponseBase.consume
IncompleteBytes == {NUL, DLE}

DT7_SYSTEM == 7
DT8_POWER == 8
DT9_INPUT == 9
DT12_VOLUME_HIGH == 12
DT13_VOLUME_LOW == 13
DT14_PROGRAM == 14
DT29_BEAM == 29
max_data_len == 144

\* the keys of cmd_layout in dict order
LayoutKeys(kind) ==
  IF kind = "ConfigurationCommand"
    THEN <<"start", "type", "ver", "len", "data", "sum", "end">>
    ELSE <<"start", "type", "guard", "rcmd", "rdata", "end">>

ConfigurationLayout ==
  [k \in {"start", "type", "ver", "len", "data", "sum", "end"} |->
     CASE k = "start" -> 1 [] k = "type" -> 5 [] k = "ver" -> 1 [] k = "len" -> 2
       [] k = "data" -> 0 [] k = "sum" -> 2 [] k = "end" -> 1]

ReportLayout ==
  [k \in {"start", "type", "guard", "rcmd", "rdata", "end"} |->
     CASE k = "start" -> 1 [] k = "type" -> 1 [] k = "guard" -> 1 [] k = "rcmd" -> 2
       [] k = "rdata" -> 2 [] k = "end" -> 1]

EmptyFields == [k \in {} |-> <<>>]

\* ConfigurationCommand.__init__ and ReportCommand.__init__
ConfigurationCommand ==
  [buf |-> <<>>, fields |-> EmptyFields, completed |-> FALSE,
   cmd_layout |-> ConfigurationLayout,
   status |-> None, power |-> None, input |-> None,
   volume |-> None, program |-> None, beam |-> None]

ReportCommand ==
  [buf |-> <<>>, fields |-> EmptyFields, completed |-> FALSE,
   cmd_layout |-> ReportLayout]

RECURSIVE SumLayout(_, _, _)
SumLayout(layout, keys, k) ==
  IF k > Len(keys) THEN 0 ELSE layout[keys[k]] + SumLayout(layout, keys, k + 1)

\* ConfigurationCommand._parse_len, "total > len(buf)": h has the declared length
parse_len_fixup(h, buf) ==
  IF SumLayout(h.cmd_layout, LayoutKeys("ConfigurationCommand"), 1) > Len(buf)
    THEN [h EXCEPT !.cmd_layout["data"] = max_data_len]
    ELSE h

\* ConfigurationCommand._parse_len, given the outcome p of int(chunk, 16)
parse_len_of(h, buf, p) ==
  IF p.ok THEN [h |-> parse_len_fixup([h EXCEPT !.cmd_layout["data"] = p.val], buf),
                err |-> "none"]
  ELSE [h |-> h, err |-> "ValueError"]

\* ConfigurationCommand._parse_len
_parse_len(h, buf, chunk) == parse_len_of(h, buf, PyInt16(chunk, BytesSpace))

\* ConfigurationCommand._parse_data from "self.volume =" on: h has status, power
\* and input set, d is the outcome of decoding chunk[12:14]
parse_data_of(h, chunk, d) ==
  IF Len(chunk) > DT13_VOLUME_LOW /\ ~d.ok
    THEN [h |-> h, err |-> "UnicodeDecodeError"]
    ELSE [h |-> [h EXCEPT
                   !.volume = IF Len(chunk) > DT13_VOLUME_LOW THEN d.str ELSE @,
                   !.program = IF Len(chunk) > DT14_PROGRAM
                                 THEN <<chunk[DT14_PROGRAM + 1]>> ELSE @,
                   !.beam = IF Len(chunk) > DT29_BEAM THEN <<chunk[DT29_BEAM + 1]>> ELSE @],
          err |-> "none"]

\* ConfigurationCommand._parse_data
_parse_data(h, buf, chunk) ==
  parse_data_of(
    [h EXCEPT !.status = IF Len(chunk) > DT7_SYSTEM THEN <<chunk[DT7_SYSTEM + 1]>> ELSE @,
              !.power = IF Len(chunk) > DT8_POWER THEN <<chunk[DT8_POWER + 1]>> ELSE @,
              !.input = IF Len(chunk) > DT9_INPUT THEN <<chunk[DT9_INPUT + 1]>> ELSE @],
    chunk,
    Decode(PySlice(chunk, DT12_VOLUME_HIGH, DT13_VOLUME_LOW + 1)))

\* the handler a layout entry names (the second component of the tuples)
field_handler(kind, key, h, buf, elem) ==
  IF kind = "ConfigurationCommand" /\ key = "len" THEN _parse_len(h, buf, elem)
  ELSE IF kind = "ConfigurationCommand" /\ key = "data" THEN _parse_data(h, buf, elem)
  ELSE [h |-> h, err |-> "none"]

\* YspResponseBase.consume, "parse the entire buffer": the loop over
\* layout().items() from the k-th item on, at offset pos
RECURSIVE parse_buffer(_, _, _, _)
\* the rest of the loop after the handler of item k returned r
parse_next(kind, k, pos, r) ==
  IF r.err # "none" THEN r ELSE parse_buffer(kind, r.h, k + 1, pos)

\* one item of the loop: key with size bytes at pos
parse_item(kind, h, k, pos, key, size) ==
  IF Len(h.buf) < pos + size THEN [h |-> h, err |-> "none"]
  ELSE parse_next(kind, k, pos + size,
         field_handler(kind, key,
           [h EXCEPT !.fields = (key :> PySlice(h.buf, pos, pos + size)) @@ @],
           h.buf, PySlice(h.buf, pos, pos + size)))

parse_buffer(kind, h, k, pos) ==
  IF k > Len(LayoutKeys(kind)) THEN [h |-> h, err |-> "none"]
  ELSE parse_item(kind, h, k, pos, LayoutKeys(kind)[k], h.cmd_layout[LayoutKeys(kind)[k]])

\* is_end with the incomplete-response bytes honoured by Configuration frames only
is_end_configuration_only(kind, val) ==
  val = END_BYTE(kind) \/ (kind = "ConfigurationCommand" /\ val \in IncompleteBytes)

\* the bytes on which the enumerate loop of consume breaks
is_end(kind, val) == val = END_BYTE(kind) \/ val \in IncompleteBytes

\* last_index that stops on the first byte whatever it is
last_index_first(kind, data, j) == j

\* the index (from 1) of the byte the enumerate loop of consume stops on
RECURSIVE last_index(_, _, _)
last_index(kind, data, j) ==
  IF j >= Len(data) \/ is_end(kind, data[j]) THEN j ELSE last_index(kind, data, j + 1)

\* YspResponseBase.consume, "if complete:", given the outcome p of the parse of
\* the buffer frame
consume_parsed(p, remaining, frame) ==
  IF p.err # "none"
    THEN [h |-> p.h, remaining |-> remaining, err |-> p.err, frame |-> frame]
    ELSE [h |-> [p.h EXCEPT !.buf = <<>>, !.completed = TRUE],
          remaining |-> remaining, err |-> "none", frame |-> frame]

\* consume that leaves out "remaining = data[i+1:]"
consume_split_keep(kind, h, data, n) ==
  IF is_end(kind, data[n])
    THEN consume_parsed(parse_buffer(kind, h, 1, 0), data, h.buf)
    ELSE [h |-> h, remaining |-> data, err |-> "none", frame |-> <<>>]

\* YspResponseBase.consume from "self.buf += data[:i+1]" on; n is i+1 and h has
\* the bytes appended
consume_split(kind, h, data, n) ==
  IF is_end(kind, data[n])
    THEN consume_parsed(parse_buffer(kind, h, 1, 0), SubSeq(data, n + 1, Len(data)), h.buf)
    ELSE [h |-> h, remaining |-> SubSeq(data, n + 1, Len(data)), err |-> "none",
          frame |-> <<>>]

\* YspResponseBase.consume from the enumerate loop on
consume_bytes(kind, h, data, n) ==
  consume_split(kind, [h EXCEPT !.buf = @ \o SubSeq(data, 1, n)], data, n)

\* consume without "self.completed = False" at the start of a frame
consume_keep_completed(kind, h, data) ==
  IF h.buf # <<>> THEN consume_bytes(kind, h, data, last_index(kind, data, 1))
  ELSE IF data[1] # START_BYTE(kind)
    THEN [h |-> [h EXCEPT !.fields = EmptyFields],
          remaining |-> data, err |-> "AssertionError", frame |-> <<>>]
  ELSE consume_bytes(kind, [h EXCEPT !.fields = EmptyFields],
                     data, last_index(kind, data, 1))

\* YspResponseBase.consume for a non-empty data: the new handler, the remaining
\* bytes, the exception raised, and (for the record of calls) the buffer parsed
consume(kind, h, data) ==
  IF h.buf # <<>> THEN consume_bytes(kind, h, data, last_index(kind, data, 1))
  ELSE IF data[1] # START_BYTE(kind)
    THEN [h |-> [h EXCEPT !.fields = EmptyFields, !.completed = FALSE],
          remaining |-> data, err |-> "AssertionError", frame |-> <<>>]
  ELSE consume_bytes(kind, [h EXCEPT !.fields = EmptyFields, !.completed = FALSE],
                     data, last_index(kind, data, 1))

\* match that accepts any leading byte
match_any(kind, data) == TRUE

\* YspResponseBase.match
match(kind, data) == data[1] = START_BYTE(kind)

\* ConfigurationCommand.emit_changes: the keyword arguments of update_state
Configuration_emit_changes(h) ==
  [err |-> "none",
   kwargs |-> << <<"status", h.status>>, <<"power", h.power>>, <<"input", h.input>>,
                 <<"volume", h.volume>>, <<"program", h.program>>, <<"beam", h.beam>> >>]

\* power_code without the rule for a cut response
power_code_unguarded(rdata) == <<rdata[2]>>

\* ReportCommand.emit_changes, rcmd == b'20': the power code of a response
power_code(rdata) == IF rdata[2] >= 48 THEN <<rdata[2]>> ELSE <<48>>

\* ReportCommand.emit_changes, rcmd == b'26': rdata.decode() gave d
volume_kwargs(d) ==
  IF d.ok THEN [err |-> "none", kwargs |-> << <<"volume", d.str>> >>]
  ELSE [err |-> "UnicodeDecodeError", kwargs |-> <<>>]

\* report_kwargs taking the program from the second character
report_kwargs_second(rcmd, rdata) ==
  IF rcmd = <<48, 48>> THEN [err |-> "none", kwargs |-> << <<"status", <<rdata[2]>> >> >>]
  ELSE IF rcmd = <<48, 49>>
    THEN [err |-> "none", kwargs |-> << <<"status", <<119, 97, 114, 110, 105, 110, 103>> >> >>]
  ELSE IF rcmd = <<50, 48>>
    THEN [err |-> "none", kwargs |-> << <<"power", power_code(rdata)>> >>]
  ELSE IF rcmd = <<50, 49>> THEN [err |-> "none", kwargs |-> << <<"input", <<rdata[2]>> >> >>]
  ELSE IF rcmd = <<50, 54>> THEN volume_kwargs(Decode(rdata))
  ELSE IF rcmd = <<50, 56>> THEN [err |-> "none", kwargs |-> << <<"program", <<rdata[2]>> >> >>]
  ELSE IF rcmd = <<66, 48>> THEN [err |-> "none", kwargs |-> << <<"beam", <<rdata[2]>> >> >>]
  ELSE [err |-> "none", kwargs |-> <<>>]

\* ReportCommand.emit_changes once rcmd and rdata are read
report_kwargs(rcmd, rdata) ==
  IF rcmd = <<48, 48>> THEN [err |-> "none", kwargs |-> << <<"status", <<rdata[2]>> >> >>]
  ELSE IF rcmd = <<48, 49>>
    THEN [err |-> "none", kwargs |-> << <<"status", <<119, 97, 114, 110, 105, 110, 103>> >> >>]
  ELSE IF rcmd = <<50, 48>>
    THEN [err |-> "none", kwargs |-> << <<"power", power_code(rdata)>> >>]
  ELSE IF rcmd = <<50, 49>> THEN [err |-> "none", kwargs |-> << <<"input", <<rdata[2]>> >> >>]
  ELSE IF rcmd = <<50, 54>> THEN volume_kwargs(Decode(rdata))
  ELSE IF rcmd = <<50, 56>> THEN [err |-> "none", kwargs |-> << <<"program", <<rdata[1]>> >> >>]
  ELSE IF rcmd = <<66, 48>> THEN [err |-> "none", kwargs |-> << <<"beam", <<rdata[2]>> >> >>]
  ELSE [err |-> "none", kwargs |-> <<>>]

\* ReportCommand.emit_changes: the keyword arguments of update_state, or the
\* exception raised before the call
Report_emit_changes(h) ==
  IF "rcmd" \notin DOMAIN h.fields \/ "rdata" \notin DOMAIN h.fields
    THEN [err |-> "KeyError", kwargs |-> <<>>]
    ELSE report_kwargs(h.fields["rcmd"], h.fields["rdata"])

emit_changes(kind, h) ==
  IF kind = "ConfigurationCommand" THEN Configuration_emit_changes(h)
  ELSE Report_emit_changes(h)

(***************************************************************************)
(* ysp.py: Ysp4000.update_state.  y is the Ysp4000: state, ready (_ready)  *)
(* and err, the exception the call raises.                                 *)
(***************************************************************************)
StatusMap_ok == <<48>>
PowerMap_off == <<48>>
PowerMap_on == <<49>>

\* the two "if key ==" statements that close the loop body
update_ready(y, key, new) ==
  IF key = "power" /\ new = PowerMap_off THEN [y EXCEPT !.ready = FALSE]
  ELSE IF key = "status" /\ new = StatusMap_ok THEN [y EXCEPT !.ready = TRUE]
  ELSE y

\* "if old != new": the value is stored, then the mapper is called and may raise
update_changed(y, key, new, e) ==
  IF e # "none" THEN [y EXCEPT !.state[key] = new, !.err = e]
  ELSE update_ready([y EXCEPT !.state[key] = new], key, new)

\* the body of "for key, new in kwargs.items()" for one item
update_item(y, key, new) ==
  IF y.state[key] # new THEN update_changed(y, key, new, mapper(key, new))
  ELSE update_ready(y, key, new)

\* Ysp4000.update_state(**kwargs) from item k on; no callback is registered
RECURSIVE update_state(_, _, _)
\* the rest of the loop after one item
update_rest(y, kwargs, k) ==
  IF y.err # "none" THEN y ELSE update_state(y, kwargs, k)

update_state(y, kwargs, k) ==
  IF k > Len(kwargs) THEN y
  ELSE update_rest(update_item(y, kwargs[k][1], kwargs[k][2]), kwargs, k + 1)

(***************************************************************************)
(* commands.py: ResponseParser.  P is the parser together with its sink:   *)
(* current, h (the two handlers), state and ready (the Ysp4000), log (the  *)
(* update_state calls made so far) and err (the exception of this call).   *)
(***************************************************************************)
\* resume after self.current.emit_changes(self.ysp) made the call kwargs and
\* update_state returned or raised with the Ysp4000 u
resume_updated(P, kind, r, kwargs, u) ==
  [P |-> [P EXCEPT !.state = u.state, !.ready = u.ready, !.err = u.err,
                   !.current = IF u.err = "none" THEN "None" ELSE @,
                   !.log = Append(@, [handler |-> kind, frame |-> r.frame,
                                      kwargs |-> kwargs, err |-> u.err])],
   data |-> r.remaining]

\* resume, "if self.current.done()": e is the outcome of emit_changes up to its
\* update_state call
resume_done(P, kind, r, e) ==
  IF e.err # "none" THEN [P |-> [P EXCEPT !.err = e.err], data |-> r.remaining]
  ELSE resume_updated(P, kind, r, e.kwargs,
         update_state([state |-> P.state, ready |-> P.ready, err |-> "none"], e.kwargs, 1))

\* resume_consumed without the "elif data: raise RuntimeError"
resume_consumed_quiet(P, kind, r) ==
  IF r.err # "none" THEN [P |-> [P EXCEPT !.err = r.err], data |-> r.remaining]
  ELSE IF r.h.completed THEN resume_done(P, kind, r, emit_changes(kind, r.h))
  ELSE [P |-> P, data |-> r.remaining]

\* resume after data = self.current.consume(data) gave r; P has the new handler
resume_consumed(P, kind, r) ==
  IF r.err # "none" THEN [P |-> [P EXCEPT !.err = r.err], data |-> r.remaining]
  ELSE IF r.h.completed THEN resume_done(P, kind, r, emit_changes(kind, r.h))
  ELSE IF r.remaining # <<>>
    THEN [P |-> [P EXCEPT !.err = "RuntimeError"], data |-> r.remaining]
  ELSE [P |-> P, data |-> r.remaining]

\* resume with the handler record of self.current replaced by that of r
resume_store(P, kind, r) == resume_consumed([P EXCEPT !.h[kind] = r.h], kind, r)

\* ResponseParser.consume.resume
resume(P, data) == resume_store(P, P.current, consume(P.current, P.h[P.current], data))

\* ResponseParser.consume: the while loop over self.handlers from index i
RECURSIVE scan_handlers(_, _, _)
\* "if not data: return", else (re)start the loop, after resume returned r
after_resume(r) ==
  IF r.P.err # "none" \/ r.data = <<>> THEN r.P ELSE scan_handlers(r.P, r.data, 1)

scan_handlers(P, data, i) ==
  IF i > Len(handlers) THEN P
  ELSE IF match(handlers[i], data)
    THEN after_resume(resume([P EXCEPT !.current = handlers[i]], data))
  ELSE scan_handlers(P, data, i + 1)

\* ResponseParser.consume(data) for a non-empty data
ResponseParser_consume(P, data) ==
  IF P.current # "None" THEN after_resume(resume([P EXCEPT !.err = "none"], data))
  ELSE scan_handlers([P EXCEPT !.err = "none"], data, 1)

\* make_response_parser(ysp) for a new Ysp4000()
make_response_parser ==
  [current |-> "None",
   h |-> [k \in {"ConfigurationCommand", "ReportCommand"} |->
            IF k = "ConfigurationCommand" THEN ConfigurationCommand ELSE ReportCommand],
   state |-> [a \in {"status", "power", "input", "volume", "program", "beam"} |-> None],
   ready |-> FALSE,
   log |-> <<>>,
   err |-> "none"]

(***************************************************************************)
(* commands.py: the commands sent to the device.  kwargs is a function     *)
(* from the keyword names given to their values: strings, and for the      *)
(* volume of OperationCommand.cmd an integer.                              *)
(***************************************************************************)
DC1 == 17

\* ReadyCommand.CMD
ReadyCommand_CMD == <<DC1, 0, 0, 0, ETX>>

\* control_cmd without the end marker
control_cmd_open(sw, data) == <<STX>> \o sw \o data

\* ControlCommandBase.control_cmd
control_cmd(sw, data) == <<STX>> \o sw \o data \o <<ETX>>

\* str.lower() of an ASCII string
lower(s) == [i \in 1..Len(s) |-> IF s[i] >= 65 /\ s[i] <= 90 THEN s[i] + 32 ELSE s[i]]

\* str.encode() of a string of code points below 0x800: UTF-8
RECURSIVE encode(_)
encode(s) ==
  IF s = <<>> THEN <<>>
  ELSE IF s[1] < 128 THEN <<s[1]>> \o encode(Tail(s))
  ELSE <<192 + (s[1] \div 64), 128 + (s[1] % 64)>> \o encode(Tail(s))

\* kwargs.get(key), and its truth value in "if x := kwargs.get(key)"
kwargs_get(kwargs, key) == IF key \in DOMAIN kwargs THEN kwargs[key] ELSE None

truthy(v) == v # None /\ v # <<>>

\* the truth value of "volume := kwargs.get('volume')" for an integer volume
truthy_volume(kwargs) == "volume" \in DOMAIN kwargs /\ kwargs["volume"] # 0

\* SystemCommand.cmd(volume=None, **kwargs)
SystemCommand_cmd(kwargs) ==
  IF kwargs_get(kwargs, "volume") # None
    THEN control_cmd(<<56>>, <<51, 48>> \o encode(kwargs["volume"]))
    ELSE None

\* input_map with an entry for '5' (DOCK)
input_map_dock(v) ==
  CASE v = <<48>> -> <<68, 70>> [] v = <<49>> -> <<52, 65>> [] v = <<50>> -> <<52, 57>>
    [] v = <<51>> -> <<68, 69>> [] v = <<52>> -> <<66, 67>> [] v = <<53>> -> <<66, 53>>
    [] v = <<54>> -> <<66, 54>>
    [] v = <<55>> -> <<55, 68>> [] v = <<56>> -> <<52, 66>> [] OTHER -> None

\* input_map.get(v) of OperationCommand.cmd
input_map(v) ==
  CASE v = <<48>> -> <<68, 70>> [] v = <<49>> -> <<52, 65>> [] v = <<50>> -> <<52, 57>>
    [] v = <<51>> -> <<68, 69>> [] v = <<52>> -> <<66, 67>> [] v = <<54>> -> <<66, 54>>
    [] v = <<55>> -> <<55, 68>> [] v = <<56>> -> <<52, 66>> [] OTHER -> None

\* power_map.get(v)
power_map(v) ==
  CASE v = <<48>> -> <<55, 70>> [] v = <<49>> -> <<55, 69>> [] OTHER -> None

\* program_map.get(v)
program_map(v) ==
  CASE v = <<49>> -> <<70, 65>> [] v = <<50>> -> <<70, 57>> [] v = <<51>> -> <<70, 66>>
    [] v = <<52>> -> <<70, 51>> [] v = <<53>> -> <<69, 49>> [] v = <<54>> -> <<69, 67>>
    [] v = <<55>> -> <<70, 56>> [] OTHER -> None

\* beam_map.get(v)
beam_map(v) ==
  CASE v = <<48>> -> <<67, 50>> [] v = <<49>> -> <<67, 51>> [] v = <<50>> -> <<67, 52>>
    [] v = <<51>> -> <<53, 48>> [] v = <<53>> -> <<67, 53>> [] v = <<54>> -> <<67, 54>>
    [] OTHER -> None

\* the strings '0', 'off', 'disable' of the program branch
ProgramOff == {<<48>>, <<111, 102, 102>>, <<100, 105, 115, 97, 98, 108, 101>>}

\* nudge_code with the two codes exchanged
nudge_code_swapped(volume) ==
  IF volume > 0 THEN <<49, 70>> ELSE IF volume < 0 THEN <<49, 69>> ELSE None

\* "cmd = b'1E' if volume > 0 else b'1F' if volume < 0 else None"
nudge_code(volume) ==
  IF volume > 0 THEN <<49, 69>> ELSE IF volume < 0 THEN <<49, 70>> ELSE None

\* the branches of OperationCommand.cmd, each given what its table lookup gave
input_cmd(cmd) == IF cmd # None THEN control_cmd(<<48>>, <<55, 56>> \o cmd) ELSE None

volume_cmd(cmd) == IF cmd # None THEN control_cmd(<<48>>, <<55, 56>> \o cmd) ELSE None

power_cmd(cmd) == IF truthy(cmd) THEN control_cmd(<<48>>, <<55, 56>> \o cmd) ELSE None

program_cmd(program, cmd) ==
  IF truthy(cmd) THEN control_cmd(<<48>>, <<55, 69>> \o cmd)
  ELSE IF lower(program) \in ProgramOff THEN control_cmd(<<48>>, <<55, 56, 57, 66>>)
  ELSE None

\* "if cmd == '4'" tests cmd, which is None here, not beam
beam_cmd(beam, cmd) ==
  IF truthy(cmd) THEN control_cmd(<<48>>, <<55, 56>> \o cmd)
  ELSE IF cmd = <<52>> THEN control_cmd(<<48>>, <<55, 69, 70, 70>>)
  ELSE None

\* OperationCommand.cmd(**kwargs)
OperationCommand_cmd(kwargs) ==
  IF truthy(kwargs_get(kwargs, "input")) THEN input_cmd(input_map(kwargs["input"]))
  ELSE IF truthy_volume(kwargs) THEN volume_cmd(nudge_code(kwargs["volume"]))
  ELSE IF truthy(kwargs_get(kwargs, "power"))
    THEN power_cmd(power_map(lower(kwargs["power"])))
  ELSE IF truthy(kwargs_get(kwargs, "program"))
    THEN program_cmd(kwargs["program"], program_map(kwargs["program"]))
  ELSE IF truthy(kwargs_get(kwargs, "beam"))
    THEN beam_cmd(kwargs["beam"], beam_map(kwargs["beam"]))
  ELSE None

(***************************************************************************)
(* hfn.py: the human-friendly names of the codes, as strings of code       *)
(* points                                                                  *)
(***************************************************************************)
\* StatusMap.code_to_hfn: self.code_to_name.get(code)
StatusMap_code_to_hfn(code) ==
  CASE code = <<48>> -> <<79, 75>>  \* OK
    [] code = <<49>> -> <<66, 117, 115, 121>>  \* Busy
    [] code = <<50>> -> <<83, 116, 97, 110, 100, 98, 121>>  \* Standby
    [] OTHER -> None

\* PowerMap.code_to_hfn: self.code_to_name.get(code)
PowerMap_code_to_hfn(code) ==
  CASE code = <<48>> -> <<79, 102, 102>>  \* Off
    [] code = <<49>> -> <<79, 110>>  \* On
    [] OTHER -> None

\* InputMap.code_to_hfn: self.code_to_name.get(code)
InputMap_code_to_hfn(code) ==
  CASE code = <<48>> -> <<84, 86, 47, 83, 84, 66>>  \* TV/STB
    [] code = <<49>> -> <<68, 86, 68>>  \* DVD
    [] code = <<50>> -> <<65, 85, 88, 49>>  \* AUX1
    [] code = <<51>> -> <<65, 85, 88, 50>>  \* AUX2
    [] code = <<52>> -> <<65, 85, 88, 51>>  \* AUX3
    [] code = <<53>> -> <<68, 79, 67, 75>>  \* DOCK
    [] code = <<54>> -> <<70, 77>>  \* FM
    [] code = <<55>> -> <<88, 77>>  \* XM
    [] code = <<56>> -> <<68, 65, 66>>  \* DAB
    [] OTHER -> None

\* ProgramMap.code_to_hfn: self.code_to_name.get(code)
ProgramMap_code_to_hfn(code) ==
  CASE code = <<48>> -> <<68, 83, 80, 32, 111, 102, 102>>  \* DSP off
    [] code = <<49>> -> <<77, 111, 118, 105, 101, 32, 83, 99, 105, 45, 70, 105>>  \* Movie Sci-Fi
    [] code = <<50>> -> <<77, 111, 118, 105, 101, 32, 83, 112, 101, 99, 116, 97, 99, 108, 101>>  \* Movie Spectacle
    [] code = <<51>> -> <<77, 111, 118, 105, 101, 32, 65, 100, 118, 101, 110, 116, 117, 114, 101>>  \* Movie Adventure
    [] code = <<52>> -> <<77, 117, 115, 105, 99, 32, 86, 105, 100, 101, 111>>  \* Music Video
    [] code = <<53>> -> <<77, 117, 115, 105, 99, 32, 67, 111, 110, 99, 101, 114, 116, 32, 72, 97, 108, 108>>  \* Music Concert Hall
    [] code = <<54>> -> <<77, 117, 115, 105, 99, 32, 74, 97, 122, 122, 32, 67, 108, 117, 98>>  \* Music Jazz Club
    [] code = <<55>> -> <<83, 112, 111, 114, 116, 115>>  \* Sports
    [] OTHER -> None

\* BeamMap.code_to_hfn: self.code_to_name.get(code)
BeamMap_code_to_hfn(code) ==
  CASE code = <<48>> -> <<53, 66, 101, 97, 109>>  \* 5Beam
    [] code = <<49>> -> <<83, 84, 43, 51, 66, 101, 97, 109>>  \* ST+3Beam
    [] code = <<50>> -> <<51, 66, 101, 97, 109>>  \* 3Beam
    [] code = <<51>> -> <<83, 116, 101, 114, 101, 111>>  \* Stereo
    [] code = <<52>> -> <<53, 99, 104, 32, 83, 116, 101, 114, 101, 111>>  \* 5ch Stereo
    [] code = <<53>> -> <<77, 121, 32, 66, 101, 97, 109>>  \* My Beam
    [] code = <<54>> -> <<77, 121, 32, 83, 117, 114, 114, 111, 117, 110, 100>>  \* My Surround
    [] OTHER -> None

\* make_hfn_mapper.mapper(key, code): the name, or the exception raised;
\* None for a key without mapper
hfn_mapper(key, code) ==
  CASE key = "volume" -> code_to_hfn_str(code_to_hfn(code))
    [] key = "status" -> [err |-> "none", str |-> StatusMap_code_to_hfn(code)]
    [] key = "power" -> [err |-> "none", str |-> PowerMap_code_to_hfn(code)]
    [] key = "input" -> [err |-> "none", str |-> InputMap_code_to_hfn(code)]
    [] key = "program" -> [err |-> "none", str |-> ProgramMap_code_to_hfn(code)]
    [] key = "beam" -> [err |-> "none", str |-> BeamMap_code_to_hfn(code)]
    [] OTHER -> [err |-> "none", str |-> None]

\* int(s) for a string of decimal digits
RECURSIVE PyInt10(_)
PyInt10(s) ==
  IF Len(s) = 1 THEN s[1] - 48
  ELSE 10 * PyInt10(SubSeq(s, 1, Len(s) - 1)) + (s[Len(s)] - 48)

(***************************************************************************)
(* ysp.py: Ysp4000.  Y is the controller: parser (the ResponseParser with  *)
(* state and _ready), cbs (_cbs), async_mode, stack (the decorated calls   *)
(* waiting in read_all or for a nested call, innermost last), trace (what  *)
(* the last call did at the port), invoked (the callbacks the last         *)
(* update_state called, each with the keyword arguments of its calls) and  *)
(* err (the exception of the last call).  The port is open.                *)
(***************************************************************************)
NoKwargs == [k \in {} |-> <<>>]

\* the updates dict at the end of the loop of update_state: the mapped name
\* of each item from k on whose value differs from the stored one
RECURSIVE updates_from(_, _, _)
updates_from(state, kwargs, k) ==
  IF k > Len(kwargs) THEN NoKwargs
  ELSE IF state[kwargs[k][1]] # kwargs[k][2]
    THEN (kwargs[k][1] :> hfn_mapper(kwargs[k][1], kwargs[k][2]).str)
           @@ updates_from(state, kwargs, k + 1)
  ELSE updates_from(state, kwargs, k + 1)

\* "for cb in self._cbs: cb(**updates)"
invoke_cbs(cbs, updates) == [cb \in cbs |-> <<updates>>]

\* update_state once its loop gave u: the callbacks run if the loop did not raise
update_state_cbs(Y, kwargs, u) ==
  [Y EXCEPT !.parser.state = u.state, !.parser.ready = u.ready, !.err = u.err,
            !.invoked = IF u.err = "none"
                          THEN invoke_cbs(Y.cbs, updates_from(Y.parser.state, kwargs, 1))
                          ELSE NoKwargs]

\* Ysp4000.update_state(**kwargs)
Ysp4000_update_state(Y, kwargs) ==
  update_state_cbs(Y, kwargs,
    update_state([state |-> Y.parser.state, ready |-> Y.parser.ready, err |-> "none"],
                 kwargs, 1))

CbNone == "None"

\* Ysp4000.register_state_update_cb on the set _cbs
register_state_update_cb(cbs, cb) == IF cb # CbNone THEN cbs \cup {cb} ELSE cbs

\* Ysp4000.unregister_state_update_cb on the set _cbs
unregister_state_update_cb(cbs, cb) ==
  IF cb # CbNone /\ cb \in cbs THEN cbs \ {cb} ELSE cbs

\* Ysp4000() with no callback
Ysp4000 ==
  [parser |-> make_response_parser, cbs |-> {}, async_mode |-> FALSE, stack |-> <<>>,
   trace |-> <<>>, invoked |-> NoKwargs, err |-> "none"]

(***************************************************************************)
(* ysp.py: the operations and their decorator.  A decorated call runs to   *)
(* its next read_all and waits there with a frame on the stack: op, its    *)
(* argument and where it waits ("handshake": the read_all of communicate,  *)
(* "final": the read_all that closes the wrapper, "nested": for the        *)
(* decorated call made by its body).  The trace lists what the call did:   *)
(* "enter" (wrapper entered), "write" and "read" (the port), "call" and    *)
(* "return" (the decorated function), each with the state and _ready of    *)
(* that moment.                                                            *)
(***************************************************************************)
log_event(Y, ev, op, data) ==
  [Y EXCEPT !.trace = Append(@, [ev |-> ev, op |-> op, data |-> data,
                                 state |-> Y.parser.state, ready |-> Y.parser.ready])]

\* Ysp4000._write_cmd(cmd), called within op
_write_cmd(Y, op, cmd) == IF truthy(cmd) THEN log_event(Y, "write", op, cmd) ELSE Y

\* an exception leaves every wrapper on the stack
raise(Y, e) == [Y EXCEPT !.stack = <<>>, !.err = e]

\* the call waits in read_all, or for the call its body made
block(Y, op, arg, at) == [Y EXCEPT !.stack = Append(@, [op |-> op, arg |-> arg, at |-> at])]

\* the attribute an operation tests, the code it tests for and the code it
\* sends, for the operations of the form "if self.state[key] != code: write"
SelectOps ==
  {"set_5beam", "set_3beam", "set_stereo", "set_input_tv", "set_input_aux1",
   "set_dsp_off", "set_dsp_cinema", "set_dsp_music"}

select_key(op) ==
  IF op \in {"set_5beam", "set_3beam", "set_stereo"} THEN "beam"
  ELSE IF op \in {"set_input_tv", "set_input_aux1"} THEN "input"
  ELSE "program"

select_test(op) ==
  CASE op = "set_5beam" -> <<48>>          \* BeamMap.beam5
    [] op = "set_3beam" -> <<50>>          \* BeamMap.beam3
    [] op = "set_stereo" -> <<51>>         \* BeamMap.stereo
    [] op = "set_input_tv" -> <<48>>       \* InputMap.tv
    [] op = "set_input_aux1" -> <<50>>     \* InputMap.aux1
    [] op = "set_dsp_off" -> <<48>>        \* ProgramMap.off
    [] op = "set_dsp_cinema" -> <<51>>     \* ProgramMap.adventure
    [] op = "set_dsp_music" -> <<53>>      \* ProgramMap.concert

\* set_stereo sends BeamMap.stereo_beam3
select_sent(op) == IF op = "set_stereo" THEN <<49>> ELSE select_test(op)

\* func_cmd without the tests of the stored state
func_cmd_unguarded(op, state, arg) ==
  CASE op = "power_on" -> OperationCommand_cmd(("power" :> PowerMap_on))
    [] op = "power_off" -> OperationCommand_cmd(("power" :> PowerMap_off))
    [] op \in SelectOps -> OperationCommand_cmd((select_key(op) :> select_sent(op)))
    [] op = "set_volume_pct" -> SystemCommand_cmd(("volume" :> convert_pct(arg)))
    [] op = "set_volume" -> SystemCommand_cmd(("volume" :> arg))

\* the argument of self._write_cmd in the body of op, None when the body
\* returns without writing
func_cmd(op, state, arg) ==
  CASE op = "power_on" ->
         IF state["power"] = PowerMap_on THEN None
         ELSE OperationCommand_cmd(("power" :> PowerMap_on))
    [] op = "power_off" ->
         IF state["power"] # PowerMap_on THEN None
         ELSE OperationCommand_cmd(("power" :> PowerMap_off))
    [] op \in SelectOps ->
         IF state[select_key(op)] # select_test(op)
           THEN OperationCommand_cmd((select_key(op) :> select_sent(op)))
           ELSE None
    [] op = "set_volume_pct" -> SystemCommand_cmd(("volume" :> convert_pct(arg)))
    [] op = "set_volume" -> SystemCommand_cmd(("volume" :> arg))

\* power_off that leaves the state and _ready to the reply of the device
power_off_awaits_reply(Y, was_on) == Y

\* power_off after its write: "self.state['power'] = PowerMap.off" and
\* "self._ready = False", reached when the device was on
power_off_in_place(Y, was_on) ==
  IF was_on THEN [Y EXCEPT !.parser.state["power"] = PowerMap_off, !.parser.ready = FALSE]
  ELSE Y

\* the body of an operation that makes no decorated call
func_body(Y, op, arg) ==
  IF op = "power_off"
    THEN power_off_in_place(_write_cmd(Y, op, func_cmd(op, Y.parser.state, arg)),
                            Y.parser.state["power"] = PowerMap_on)
    ELSE _write_cmd(Y, op, func_cmd(op, Y.parser.state, arg))

\* the percent volume_up and volume_down ask for, from str(pct) of the
\* stored volume
volume_target(op, current) ==
  IF op = "volume_up"
    THEN (IF PyInt10(current) + 3 < 100 THEN PyInt10(current) + 3 ELSE 100)
    ELSE (IF PyInt10(current) - 3 > 0 THEN PyInt10(current) - 3 ELSE 0)

RECURSIVE wrapper(_, _, _)
RECURSIVE after_func(_, _)

\* the wrapper returned to its caller: a waiting body, or whoever called
returned(Y) ==
  IF Y.stack = <<>> THEN Y
  ELSE after_func([Y EXCEPT !.stack = SubSeq(@, 1, Len(@) - 1)], Y.stack[Len(Y.stack)].op)

\* wrapper after func(self, ...): "if not self.async_mode: read_all"
after_func(Y, op) ==
  IF ~Y.async_mode THEN block(log_event(Y, "return", op, <<>>), op, <<>>, "final")
  ELSE returned(log_event(Y, "return", op, <<>>))

\* volume_up / volume_down once code_to_hfn(self.state.get('volume', '00'))
\* gave r: the key is always there, so the default is never used
volume_step(Y, op, r) ==
  IF r.err # "none" THEN raise(Y, r.err)
  ELSE wrapper(block(Y, op, <<>>, "nested"), "set_volume_pct", volume_target(op, r.str))

\* wrapper: "func(self, *args, **kwargs)" and what follows
run_func(Y, op, arg) ==
  IF op \in {"volume_up", "volume_down"}
    THEN volume_step(Y, op, code_to_hfn_str(code_to_hfn(Y.parser.state["volume"])))
    ELSE after_func(func_body(Y, op, arg), op)

\* wrapper that never sends the handshake
wrapper_no_handshake(Y, op, arg) ==
  run_func(log_event(log_event(Y, "enter", op, <<>>), "call", op, <<>>), op, arg)

\* Decorators.ready.wrapper up to its first read_all.  "not self._ser" is
\* False for a Serial object, so the port is never opened here.
wrapper(Y, op, arg) ==
  IF ~Y.parser.ready
    THEN block(_write_cmd(log_event(Y, "enter", op, <<>>), op, ReadyCommand_CMD),
               op, arg, "handshake")
    ELSE run_func(log_event(log_event(Y, "enter", op, <<>>), "call", op, <<>>), op, arg)

\* wrapper after communicate(ReadyCommand.cmd()):
\* "self._write_cmd(SystemCommand.cmd(report=ReportMap.enable))", then func
after_handshake(Y, op, arg) ==
  run_func(log_event(_write_cmd(Y, op, SystemCommand_cmd(("report" :> <<48, 48>>))),
                     "call", op, <<>>), op, arg)

\* the call of frame f goes on after its read_all; the parser has consumed
after_read(Y, f) ==
  IF Y.parser.err # "none" THEN raise(Y, Y.parser.err)
  ELSE IF f.at = "handshake" THEN after_handshake(Y, f.op, f.arg)
  ELSE returned(Y)

\* "if data: self._response_parser.consume(data)"
consume_if_data(P, data) ==
  IF data = <<>> THEN [P EXCEPT !.err = "none"] ELSE ResponseParser_consume(P, data)

\* read_all returned data to the innermost waiting call
read_all_returned(Y, data) ==
  after_read([log_event(Y, "read", Y.stack[Len(Y.stack)].op, data)
                EXCEPT !.stack = SubSeq(@, 1, Len(@) - 1),
                       !.parser = consume_if_data(@, data)],
             Y.stack[Len(Y.stack)])

\* a call from the application starts: the trace and the log begin anew
began(Y) == [Y EXCEPT !.trace = <<>>, !.err = "none", !.parser.log = <<>>, !.parser.err = "none"]

(***************************************************************************)
(* The state machine: the device puts frames on the serial line, the       *)
(* transport hands the received bytes to ResponseParser.consume in chunks. *)
(***************************************************************************)
VARIABLES
  parser,   \* the ResponseParser, its handlers and the Ysp4000 it updates
  sent,     \* every byte the device has put on the line, in order
  frames,   \* the catalog numbers of the frames sent
  pos,      \* how many bytes of sent were handed to consume
  unit,     \* the last call made on one part taken by itself (see the second machine)
  ysp       \* the Ysp4000 of the third and fourth machines

vars == <<parser, sent, frames, pos, unit, ysp>>

\* no part has been called by itself
NoUnit == [op |-> "none"]

Init ==
  /\ parser = make_response_parser
  /\ sent = <<>>
  /\ frames = <<>>
  /\ pos = 0
  /\ unit = NoUnit
  /\ ysp = Ysp4000

\* the device sends one more frame
DeviceSend(f) ==
  /\ Len(frames) < MaxFrames
  /\ sent' = sent \o Catalog[f]
  /\ frames' = Append(frames, f)
  /\ UNCHANGED <<parser, pos, unit, ysp>>

\* Protocol.data_received / Ysp4000._handle with the next n bytes
Deliver(n) ==
  /\ n >= 1
  /\ pos + n <= Len(sent)
  /\ parser' = ResponseParser_consume(parser, SubSeq(sent, pos + 1, pos + n))
  /\ pos' = pos + n
  /\ UNCHANGED <<sent, frames, unit, ysp>>

\* the chunk sizes the transport produces: 1..MaxChunk bytes, or all there is
ChunkSizes == (1..MaxChunk) \cup {Len(sent) - pos}

Next ==
  \/ \E f \in 1..Len(Catalog) : DeviceSend(f)
  \/ \E n \in ChunkSizes : Deliver(n)

Spec == Init /\ [][Next]_vars

(***************************************************************************)
(* The second machine: one part of the program called by itself, on inputs *)
(* drawn from bounded sets.  unit records the call and what it returned.   *)
(***************************************************************************)
\* the percents convert_pct is called on
PctInputs == (0 - PctMargin)..(100 + PctMargin)

\* the characters of a hex digit, and the two-hex-digit codes
HexChars == (48..57) \cup (65..70) \cup (97..102)
Codes == {<<a, b>> : a \in HexChars, b \in HexChars}

\* the command-ids of the Report frames fed: the seven known ones, and
\* "27", "99", "b0" and "2A" that ReportCommand.emit_changes does not know
ReportIds ==
  {<<48, 48>>, <<48, 49>>, <<50, 48>>, <<50, 49>>, <<50, 54>>, <<50, 56>>, <<66, 48>>,
   <<50, 55>>, <<57, 57>>, <<98, 48>>, <<50, 65>>}

\* the characters of the response-data: space, '/', digits, ':', letters; the
\* second one may also be an incomplete-response byte
ReportChars == {32, 47, 48, 49, 50, 57, 58, 65, 66, 90}
ReportData == {<<a, b>> : a \in ReportChars, b \in ReportChars \cup IncompleteBytes}

\* the bytes of the chunks a handler is called on
ChunkBytes(kind) == {START_BYTE(kind), 48, ETX, DLE}

RECURSIVE Chunks(_, _)
Chunks(kind, n) ==
  IF n = 0 THEN {<<>>}
  ELSE Chunks(kind, n - 1) \cup
       {Append(c, b) : c \in {d \in Chunks(kind, n - 1) : Len(d) = n - 1},
                       b \in ChunkBytes(kind)}

\* a new handler of a kind
NewHandler(kind) ==
  IF kind = "ConfigurationCommand" THEN ConfigurationCommand ELSE ReportCommand

\* the handler the next consume call is made on
UnitHandler(kind) == IF unit.op = "consume" THEN unit.ret.h ELSE NewHandler(kind)

\* VolumeMap.convert_pct(p); prev and prev_ret are the argument and the result
\* of the call before it (of this call when it is the first)
ConvertPct(p) ==
  /\ unit.op \in {"none", "convert_pct"}
  /\ unit' = [op |-> "convert_pct", val |-> p, ret |-> convert_pct(p),
              prev |-> IF unit.op = "convert_pct" THEN unit.val ELSE p,
              prev_ret |-> IF unit.op = "convert_pct" THEN unit.ret ELSE convert_pct(p)]
  /\ UNCHANGED <<parser, sent, frames, pos, ysp>>

\* VolumeMap().code_to_hfn(code)
CodeToHfn(code) ==
  /\ unit.op = "none"
  /\ unit' = [op |-> "code_to_hfn", code |-> code,
              ret |-> code_to_hfn_str(code_to_hfn(code))]
  /\ UNCHANGED <<parser, sent, frames, pos, ysp>>

\* back(forth(p)) of test_code_to_pct
RoundTrip(p) ==
  /\ unit.op = "none"
  /\ unit' = [op |-> "round_trip", val |-> p,
              ret |-> code_to_hfn_str(code_to_hfn(convert_pct(p)))]
  /\ UNCHANGED <<parser, sent, frames, pos, ysp>>

\* a new parser is fed the Report frame STX '1' '0' rcmd rdata ETX as one chunk
FeedReport(rcmd, rdata) ==
  /\ unit.op = "none"
  /\ unit' = [op |-> "report", rcmd |-> rcmd, rdata |-> rdata,
              ret |-> ResponseParser_consume(make_response_parser,
                        <<STX, 49, 48>> \o rcmd \o rdata \o <<ETX>>)]
  /\ UNCHANGED <<parser, sent, frames, pos, ysp>>

\* handler.consume(data) as ResponseParser calls it: on a handler that matched
\* the chunk, or on the handler in progress
HandlerConsume(kind, data) ==
  /\ unit.op \in {"none", "consume"}
  /\ unit.op = "consume" => kind = unit.kind
  /\ data # <<>>
  /\ Len(UnitHandler(kind).buf) + Len(data) <= MaxBuf
  /\ UnitHandler(kind).buf = <<>> => match(kind, data)
  /\ unit' = [op |-> "consume", kind |-> kind, before |-> UnitHandler(kind),
              data |-> data, ret |-> consume(kind, UnitHandler(kind), data)]
  /\ UNCHANGED <<parser, sent, frames, pos, ysp>>

\* the keyword arguments OperationCommand.cmd is called with: none, one
\* selector ('0'..'9', '', 'off', 'OFF', 'Off', 'disable', 'on', 'A'), a
\* volume delta, or a keyword it does not know
OperationKwargs ==
  {[k \in {} |-> <<>>]} \cup
  {(key :> v) : key \in {"input", "power", "program", "beam", "report"},
                v \in {<<c>> : c \in 48..57} \cup
                      {<<>>, <<111, 102, 102>>, <<79, 70, 70>>, <<79, 102, 102>>,
                       <<100, 105, 115, 97, 98, 108, 101>>, <<111, 110>>, <<65>>}} \cup
  {("volume" :> d) : d \in (0 - MaxDelta)..MaxDelta}

\* the keyword arguments SystemCommand.cmd is called with
SystemKwargs ==
  {[k \in {} |-> <<>>], ("report" :> <<48, 48>>)} \cup {("volume" :> c) : c \in Codes}

\* OperationCommand.cmd(**kwargs)
OperationCmd(kwargs) ==
  /\ unit.op = "none"
  /\ unit' = [op |-> "OperationCommand.cmd", kwargs |-> kwargs,
              ret |-> OperationCommand_cmd(kwargs)]
  /\ UNCHANGED <<parser, sent, frames, pos, ysp>>

\* SystemCommand.cmd(**kwargs)
SystemCmd(kwargs) ==
  /\ unit.op = "none"
  /\ unit' = [op |-> "SystemCommand.cmd", kwargs |-> kwargs,
              ret |-> SystemCommand_cmd(kwargs)]
  /\ UNCHANGED <<parser, sent, frames, pos, ysp>>

\* what a handler of the YspResponseIf interface may leave behind after
\* consume: done() or not, and any remainder
StubHandler(kind, done) ==
  [NewHandler(kind) EXCEPT !.completed = done,
     !.fields = IF done THEN ("rcmd" :> <<50, 54>>) @@ ("rdata" :> <<66, 50>>) ELSE @]

StubRemainders == {<<>>, <<66>>, <<STX>>, OP_RESP_VOLUME_CHANGE1}

\* ResponseParser.consume with current set, when self.current.consume(data)
\* leaves done() = done and returns rem
ResumeStub(kind, done, rem) ==
  /\ unit.op = "none"
  /\ unit' = [op |-> "resume", kind |-> kind, done |-> done, rem |-> rem,
              ret |-> after_resume(
                        resume_store([make_response_parser EXCEPT !.current = kind], kind,
                          [h |-> StubHandler(kind, done), remaining |-> rem,
                           err |-> "none", frame |-> <<>>]))]
  /\ UNCHANGED <<parser, sent, frames, pos, ysp>>

\* volume_up() / volume_down() on a Ysp4000 that is ready and holds the
\* volume code: what the call did up to its closing read_all
VolumeUpDown(op, code) ==
  /\ unit.op = "none"
  /\ unit' = [op |-> op, code |-> code,
              ret |-> wrapper([Ysp4000 EXCEPT !.parser.ready = TRUE,
                                              !.parser.state["status"] = StatusMap_ok,
                                              !.parser.state["power"] = PowerMap_on,
                                              !.parser.state["volume"] = code],
                              op, <<>>).trace]
  /\ UNCHANGED <<parser, sent, frames, pos, ysp>>

UnitNext ==
  \/ \E p \in PctInputs : ConvertPct(p)
  \/ \E code \in Codes : CodeToHfn(code)
  \/ \E p \in PctInputs : RoundTrip(p)
  \/ \E rcmd \in ReportIds, rdata \in ReportData : FeedReport(rcmd, rdata)
  \/ \E kind \in {"ConfigurationCommand", "ReportCommand"} :
       \E data \in Chunks(kind, MaxData) : HandlerConsume(kind, data)
  \/ \E kind \in {"ConfigurationCommand", "ReportCommand"}, done \in BOOLEAN :
       \E rem \in StubRemainders : ResumeStub(kind, done, rem)
  \/ \E kwargs \in OperationKwargs : OperationCmd(kwargs)
  \/ \E kwargs \in SystemKwargs : SystemCmd(kwargs)
  \/ \E op \in {"volume_up", "volume_down"}, code \in Codes : VolumeUpDown(op, code)

UnitSpec == Init /\ [][UnitNext]_vars

(***************************************************************************)
(* Third machine: update_state and the callback registration of a Ysp4000  *)
(* called directly, as tests/test_ysp.py does.  unit records the call and  *)
(* the Ysp4000 it was made on.                                             *)
(***************************************************************************)
\* the keyword arguments update_state is called with, in the order given
UpdateKwargs ==
  { <<>>,
    << <<"status", <<48>> >> >>, << <<"status", <<50>> >> >>,
    << <<"power", <<48>> >> >>, << <<"power", <<49>> >> >>,
    << <<"input", <<50>> >> >>, << <<"input", <<57>> >> >>,
    << <<"volume", <<66, 50>> >> >>, << <<"volume", <<90, 90>> >> >>,
    << <<"volume", None>> >>,
    << <<"status", <<48>> >>, <<"power", <<48>> >> >>,
    << <<"power", <<48>> >>, <<"status", <<48>> >> >>,
    << <<"status", <<48>> >>, <<"power", <<49>> >> >>,
    << <<"power", <<49>> >>, <<"input", <<50>> >>, <<"volume", <<66, 50>> >> >>,
    << <<"volume", <<90, 90>> >>, <<"status", <<48>> >> >> }

\* what a call found: the stored state, _ready and _cbs
Before(Y) == [state |-> Y.parser.state, ready |-> Y.parser.ready, cbs |-> Y.cbs]

\* ysp.update_state(**kwargs)
UpdateState(kwargs) ==
  /\ unit' = [op |-> "update_state", kwargs |-> kwargs, before |-> Before(ysp)]
  /\ ysp' = Ysp4000_update_state(ysp, kwargs)
  /\ UNCHANGED <<parser, sent, frames, pos>>

\* ysp.register_state_update_cb(cb)
Register(cb) ==
  /\ unit' = [op |-> "register", cb |-> cb, before |-> Before(ysp)]
  /\ ysp' = [ysp EXCEPT !.cbs = register_state_update_cb(@, cb)]
  /\ UNCHANGED <<parser, sent, frames, pos>>

\* ysp.unregister_state_update_cb(cb)
Unregister(cb) ==
  /\ unit' = [op |-> "unregister", cb |-> cb, before |-> Before(ysp)]
  /\ ysp' = [ysp EXCEPT !.cbs = unregister_state_update_cb(@, cb)]
  /\ UNCHANGED <<parser, sent, frames, pos>>

YspNext ==
  \/ \E kwargs \in UpdateKwargs : UpdateState(kwargs)
  \/ \E cb \in {"cb1", "cb2", CbNone} : Register(cb)
  \/ \E cb \in {"cb1", "cb2", CbNone} : Unregister(cb)

YspSpec == Init /\ [][YspNext]_vars

(***************************************************************************)
(* Fourth machine: the application calls the operations of a Ysp4000 whose *)
(* port is open; the device answers, or not, while a call waits in         *)
(* read_all; once the event loop is connected (async mode) data also come  *)
(* between the calls.  No callback is registered.  unit records the call.  *)
(***************************************************************************)
\* what data_received is given between the calls: the Configuration frame of
\* a powered-on device and the Report frames b'\x02102000\x03' (power off),
\* b'\x0210B002\x03', b'\x0210B003\x03' (beam 3Beam, Stereo), b'\x02102102\x03' (AUX1),
\* b'\x02102800\x03', b'\x02102830\x03', b'\x02102850\x03' (program off,
\* adventure, concert hall), b'\x02100000\x03' (status OK)
Reports ==
  {READY_RESP_POWERED_ON,
   <<2, 49, 48, 50, 48, 48, 48, 3>>, <<2, 49, 48, 66, 48, 48, 50, 3>>,
   <<2, 49, 48, 66, 48, 48, 51, 3>>, <<2, 49, 48, 50, 49, 48, 50, 3>>,
   <<2, 49, 48, 50, 56, 48, 48, 3>>, <<2, 49, 48, 50, 56, 51, 48, 3>>,
   <<2, 49, 48, 50, 56, 53, 48, 3>>, <<2, 49, 48, 48, 48, 48, 48, 3>>}

\* what read_all returns while a call waits: nothing, a Configuration frame,
\* a volume report, the power-off report, or a cut report frame
Replies ==
  {<<>>, READY_RESP_POWERED_OFF, READY_RESP_POWERED_ON, OP_RESP_VOLUME_CHANGE1,
   <<2, 49, 48, 50, 48, 48, 48, 3>>, OP_RESP_CUT}

\* the operations without argument
Operations == {"power_on", "power_off", "volume_up", "volume_down"} \cup SelectOps

Idle == ysp.stack = <<>>

\* ysp.<op>() for an operation without argument
Call(op) ==
  /\ Idle
  /\ unit' = [op |-> op, before |-> Before(ysp)]
  /\ ysp' = wrapper(began(ysp), op, <<>>)
  /\ UNCHANGED <<parser, sent, frames, pos>>

\* ysp.set_volume_pct(value) for a percent, ysp.set_volume(value) for a code
SetVolume(op, value) ==
  /\ Idle
  /\ unit' = [op |-> op, before |-> Before(ysp)]
  /\ ysp' = wrapper(began(ysp), op, value)
  /\ UNCHANGED <<parser, sent, frames, pos>>

\* read_all returns data to the call that waits
ReadAll(data) ==
  /\ ~Idle
  /\ ysp' = read_all_returned(ysp, data)
  /\ UNCHANGED <<parser, sent, frames, pos, unit>>

\* Protocol.connection_made
ConnectionMade ==
  /\ Idle
  /\ ~ysp.async_mode
  /\ unit' = [op |-> "connection_made", before |-> Before(ysp)]
  /\ ysp' = [began(ysp) EXCEPT !.async_mode = TRUE]
  /\ UNCHANGED <<parser, sent, frames, pos>>

\* Protocol.data_received(data) / Ysp4000._handle between two calls
DataReceived(data) ==
  /\ Idle
  /\ ysp.async_mode
  /\ unit' = [op |-> "data_received", before |-> Before(ysp)]
  /\ ysp' = [began(ysp) EXCEPT !.parser = ResponseParser_consume(@, data)]
  /\ UNCHANGED <<parser, sent, frames, pos>>

SessionNext ==
  \/ \E op \in Operations : Call(op)
  \/ \E value \in {0, 50} : SetVolume("set_volume_pct", value)
  \/ \E value \in {<<66, 50>>} : SetVolume("set_volume", value)
  \/ \E data \in Replies : ReadAll(data)
  \/ ConnectionMade
  \/ \E data \in Reports : DataReceived(data)

SessionSpec == Init /\ [][SessionNext]_vars

(***************************************************************************)
(* The fifth machine: ResponseParser.consume taken one pass of its loop at *)
(* a time, on the stream of the first machine.  unit is the call in        *)
(* progress: the data still to scan, the index i into self.handlers, the   *)
(* length n of the chunk the call was made with and the number of resume   *)
(* calls made so far.                                                      *)
(***************************************************************************)
\* the call after a resume that gave r: "if not data: return" (or the
\* exception leaves), else the scan starts at index 0
loop_after(r, n, resumed) ==
  [op |-> IF r.P.err # "none" \/ r.data = <<>> THEN "returned" ELSE "while",
   data |-> r.data, i |-> 1, n |-> n, resumed |-> resumed]

\* the parser and the call after a resume that gave r
Resumed(r, n, resumed) == parser' = r.P /\ unit' = loop_after(r, n, resumed)

\* ResponseParser.consume(data) up to its while loop:
\* "if self.current: data = resume(data); if not data: return"
ConsumeBegin(n) ==
  /\ unit.op \in {"none", "returned"}
  /\ n >= 1
  /\ pos + n <= Len(sent)
  /\ pos' = pos + n
  /\ IF parser.current # "None"
       THEN Resumed(resume([parser EXCEPT !.err = "none"], SubSeq(sent, pos + 1, pos + n)),
                    n, 1)
       ELSE /\ parser' = [parser EXCEPT !.err = "none"]
            /\ unit' = [op |-> "while", data |-> SubSeq(sent, pos + 1, pos + n), i |-> 1,
                        n |-> n, resumed |-> 0]
  /\ UNCHANGED <<sent, frames, ysp>>

\* one pass of "while i < len(self.handlers)": the loop ends, or the handler
\* matches and is resumed, or i += 1
WhileStep ==
  /\ unit.op = "while"
  /\ IF unit.i > Len(handlers)
       THEN parser' = parser /\ unit' = [unit EXCEPT !.op = "returned"]
     ELSE IF match(handlers[unit.i], unit.data)
       THEN Resumed(resume([parser EXCEPT !.current = handlers[unit.i]], unit.data),
                    unit.n, unit.resumed + 1)
     ELSE parser' = parser /\ unit' = [unit EXCEPT !.i = @ + 1]
  /\ UNCHANGED <<sent, frames, pos, ysp>>

\* the chunks are single bytes, or all the device has sent
LoopNext ==
  \/ \E f \in 1..Len(Catalog) : DeviceSend(f)
  \/ \E n \in {1, Len(sent) - pos} : ConsumeBegin(n)
  \/ WhileStep

LoopSpec == Init /\ [][LoopNext]_vars

(***************************************************************************)
(* Vocabulary of the properties                                            *)
(***************************************************************************)
\* every frame sent so far is a complete Configuration or Report frame
AllComplete == \A i \in 1..Len(frames) : frames[i] \in CompleteFrames

\* the offset in sent of the last byte of the i-th frame
RECURSIVE FrameEnd(_)
FrameEnd(i) == IF i = 0 THEN 0 ELSE FrameEnd(i - 1) + Len(Catalog[frames[i]])

\* how many frames have their terminating byte among the first p bytes
DeliveredUpTo(p) == Cardinality({i \in 1..Len(frames) : FrameEnd(i) <= p})

AtFrameBoundary(p) == \E i \in 0..Len(frames) : FrameEnd(i) = p

\* the keyword arguments of the update_state calls of a log, in order
Calls(log) == [i \in 1..Len(log) |-> log[i].kwargs]

\* the value a keyword-argument list gives to attribute a, None when it has none
RECURSIVE KwGet(_, _, _)
KwGet(kwargs, a, k) ==
  IF k > Len(kwargs) THEN None
  ELSE IF kwargs[k][1] = a THEN kwargs[k][2] ELSE KwGet(kwargs, a, k + 1)

\* what a new ConfigurationCommand makes of the bytes of one frame
FreshConfiguration(frame) == consume("ConfigurationCommand", ConfigurationCommand, frame).h

\* the data field of a Configuration frame taken by itself
DataField(frame) ==
  LET f == FreshConfiguration(frame).fields
  IN IF "data" \in DOMAIN f THEN f["data"] ELSE <<>>

\* the attribute at offset lo..hi of a data field, None when the field does not cover it
DataAttr(data, lo, hi) == IF Len(data) > hi THEN SubSeq(data, lo + 1, hi + 1) ELSE None

\* the attributes a Configuration frame carries, by the offsets of its own data field
CarriedByConfiguration(frame) ==
  LET d == DataField(frame)
  IN << <<"status", DataAttr(d, 7, 7)>>, <<"power", DataAttr(d, 8, 8)>>,
        <<"input", DataAttr(d, 9, 9)>>, <<"volume", DataAttr(d, 12, 13)>>,
        <<"program", DataAttr(d, 14, 14)>>, <<"beam", DataAttr(d, 29, 29)>> >>

\* the attributes the frame of a log entry carries
Carried(entry) ==
  IF entry.handler = "ConfigurationCommand" THEN CarriedByConfiguration(entry.frame)
  ELSE entry.kwargs

\* the code attribute a was given by the most recent frame of the log that carried it
RECURSIVE LastCarried(_, _, _)
LastCarried(log, a, k) ==
  IF k = 0 THEN None
  ELSE IF KwGet(Carried(log[k]), a, 1) # None THEN KwGet(Carried(log[k]), a, 1)
  ELSE LastCarried(log, a, k - 1)

(***************************************************************************)
(* Properties                                                              *)
(***************************************************************************)
\* C1 (as claimed): fragmentation invariance.  Once a concatenation of complete
\* Configuration and Report frames has been fed to a new parser, in whatever
\* chunks, the update_state calls made and the attribute values are those of
\* feeding the same bytes as one chunk.
C1_FragmentationInvariance ==
  (AllComplete /\ sent # <<>> /\ pos = Len(sent)) =>
    LET whole == ResponseParser_consume(make_response_parser, sent)
    IN /\ Calls(parser.log) = Calls(whole.log)
       /\ parser.state = whole.state

\* C2 (as claimed): no emission before completion.  In a stream of complete
\* frames the update_state calls made so far are exactly one per frame whose
\* terminating byte has been delivered, each for that frame: none for a frame
\* still partial, and the call for a frame is made by the consume call that
\* delivers its terminating byte.
C2_NoEmissionBeforeCompletion ==
  AllComplete =>
    /\ Len(parser.log) = DeliveredUpTo(pos)
    /\ \A i \in 1..Len(parser.log) : parser.log[i].frame = Catalog[frames[i]]

\* C3 (as claimed): one consume call that starts idle at a frame boundary and
\* carries several complete frames makes one update_state call per frame, in
\* stream order, leaves every attribute at the value of the last frame that
\* set it, and leaves a trailing partial frame in progress.
C3_BackToBackFrames ==
  [][ (pos' > pos /\ AllComplete /\ parser.current = "None" /\ AtFrameBoundary(pos)) =>
        LET j == DeliveredUpTo(pos)
            k == DeliveredUpTo(pos')
            n == Len(parser.log)
        IN /\ Len(parser'.log) = n + (k - j)
           /\ \A m \in 1..(k - j) : parser'.log[n + m].frame = Catalog[frames[j + m]]
           /\ \A a \in DOMAIN parser.state :
                (\E m \in 1..(k - j) : KwGet(parser'.log[n + m].kwargs, a, 1) # None)
                  => parser'.state[a] = LastCarried(parser'.log, a, Len(parser'.log))
           /\ (~AtFrameBoundary(pos')) =>
                /\ parser'.current # "None"
                /\ parser'.h[parser'.current].buf = SubSeq(sent, FrameEnd(k) + 1, pos')
    ]_vars

\* C4 (as claimed): the attributes emitted for a Configuration frame are the
\* bytes of that frame's own data field at offsets 7, 8, 9, 12-13, 14 and 29,
\* and None where the data field does not cover the offset, whatever the
\* handler decoded before.
C4_ConfigurationAttrsFromOwnFrame ==
  \A i \in 1..Len(parser.log) :
    parser.log[i].handler = "ConfigurationCommand"
      => parser.log[i].kwargs = CarriedByConfiguration(parser.log[i].frame)

\* C5 (as claimed): every attribute of the device state is None or the code
\* carried for it by the most recent decoded frame that carried it.
C5_DeviceStateIsLastCode ==
  \A a \in DOMAIN parser.state :
    \/ parser.state[a] = None
    \/ parser.state[a] = LastCarried(parser.log, a, Len(parser.log))

\* the frames of the catalog that end before every layout field is present
CutFrames ==
  {READY_RESP_CUT, READY_RESP_CUT_LEN, OP_RESP_CUT, OP_RESP_POWEROFF_DLE, OP_RESP_POWEROFF_NUL}

Terminators == {ETX} \cup IncompleteBytes

\* the last byte of s is a terminator and no byte before it is
EndsAtFirstTerminator(s) ==
  /\ s # <<>>
  /\ s[Len(s)] \in Terminators
  /\ \A j \in 1..(Len(s) - 1) : s[j] \notin Terminators

\* C6: incomplete power-off.  A consume call that brings a Report handler's
\* buffer to STX '1' '0' '2' '0' '0' followed by 0x10 or 0x00 completes the
\* frame at that byte and calls update_state(power='0'), which does not raise;
\* when the chunk ends there the device state has power '0', the call returns
\* normally and the dispatcher is idle.  Chunks are of every size.
C6_IncompletePoweroff ==
  [][ \A f \in {OP_RESP_POWEROFF_DLE, OP_RESP_POWEROFF_NUL} : \A k \in 1..Len(f) :
        ( /\ pos' >= pos + k
          /\ parser.current \in {"None", "ReportCommand"}
          /\ parser.h["ReportCommand"].buf \o SubSeq(sent, pos + 1, pos + k) = f )
        => LET n == Len(parser.log)
           IN /\ Len(parser'.log) > n
              /\ parser'.log[n + 1] = [handler |-> "ReportCommand", frame |-> f,
                                       kwargs |-> << <<"power", <<48>> >> >>, err |-> "none"]
              /\ (pos' = pos + k) =>
                   /\ parser'.state["power"] = <<48>>
                   /\ parser'.err = "none"
                   /\ parser'.current = "None"
    ]_vars

\* C6 witness: both cut power-off responses were decoded and power is '0'
C6_Witness ==
  /\ \E i \in 1..Len(parser.log) : parser.log[i].frame = OP_RESP_POWEROFF_DLE
  /\ \E i \in 1..Len(parser.log) : parser.log[i].frame = OP_RESP_POWEROFF_NUL
  /\ parser.state["power"] = <<48>>
  /\ parser.err = "none"

\* C7 (as claimed): the incomplete bytes 0x00 and 0x10 end Configuration frames
\* only; a Report frame is completed by the end marker 0x03 alone.
C7_SentinelsOnlyInConfiguration ==
  \A i \in 1..Len(parser.log) :
    parser.log[i].handler = "ReportCommand"
      => parser.log[i].frame[Len(parser.log[i].frame)] = ETX

\* C7 (amended): 0x00 and 0x10 end a frame of either kind.  A Report handler
\* never accumulates a 0x03, 0x00 or 0x10 byte, and every decoded frame,
\* Report or Configuration, ends at its first 0x03, 0x00 or 0x10 byte.
C7_SentinelsEndBothKinds ==
  /\ \A j \in 1..Len(parser.h["ReportCommand"].buf) :
       parser.h["ReportCommand"].buf[j] \notin Terminators
  /\ \A i \in 1..Len(parser.log) : EndsAtFirstTerminator(parser.log[i].frame)

\* C7 witness: a Report frame and a Configuration frame were each completed by
\* an incomplete byte
C7_Witness ==
  /\ \E i \in 1..Len(parser.log) :
       /\ parser.log[i].handler = "ReportCommand"
       /\ parser.log[i].frame[Len(parser.log[i].frame)] \in IncompleteBytes
  /\ \E i \in 1..Len(parser.log) :
       /\ parser.log[i].handler = "ConfigurationCommand"
       /\ parser.log[i].frame[Len(parser.log[i].frame)] \in IncompleteBytes

\* C8 (as claimed): when the byte that ends a frame early is delivered (the
\* handler in progress then holds one of the cut frames), consume returns
\* without raising, makes the update_state call of that frame and leaves the
\* dispatcher idle.
C8_EarlyEndIsNoError ==
  [][ ( /\ pos' = pos + 1
        /\ parser.current # "None"
        /\ parser.h[parser.current].buf \o <<sent[pos + 1]>> \in CutFrames )
      => /\ parser'.err = "none"
         /\ parser'.current = "None"
         /\ Len(parser'.log) = Len(parser.log) + 1
    ]_vars

\* C9 (as claimed): re-synchronization.  When the stream begins with the tail of
\* a frame and a complete frame follows, that frame is decoded and emitted
\* whatever the chunk boundaries.
C9_Resynchronization ==
  ( /\ Len(frames) = 2
    /\ Catalog[frames[1]] = MID_FRAME_TAIL
    /\ frames[2] \in CompleteFrames
    /\ pos = Len(sent) )
  => /\ Len(parser.log) = 1
     /\ parser.log[1].frame = Catalog[frames[2]]

\* C10: unclassifiable leading byte.  A consume call made while no handler is in
\* progress, with data whose leading byte is neither 0x12 nor 0x02, raises
\* nothing, calls update_state not at all, leaves current None and leaves
\* every handler (buffer, fields, layout, attributes) as it was.
C10_UnclassifiableLeadingByte ==
  [][ (pos' > pos /\ parser.current = "None" /\ sent[pos + 1] \notin {DC2, STX})
      => /\ parser'.err = "none"
         /\ parser'.log = parser.log
         /\ parser'.state = parser.state
         /\ parser'.ready = parser.ready
         /\ parser'.current = "None"
         /\ parser'.h = parser.h
    ]_vars

\* C10 witness: a frame was decoded, then bytes that start no frame were
\* consumed while idle, and the parser is idle with that one call on record
C10_Witness ==
  /\ Len(frames) = 2
  /\ frames[1] = 2
  /\ Catalog[frames[2]] = MID_FRAME_TAIL
  /\ pos = Len(sent) - 1
  /\ parser.current = "None"
  /\ Len(parser.log) = 1
  /\ parser.err = "none"

\* C11: protocol desync is loud.  When the handler in progress returns a
\* non-empty remainder from consume while done() is False, ResponseParser.consume
\* raises RuntimeError: no update_state call is made, no attribute changes, the
\* remaining bytes reach no handler, and the handler stays current.
C11_DesyncRaises ==
  (unit.op = "resume" /\ ~unit.done /\ unit.rem # <<>>) =>
    /\ unit.ret.err = "RuntimeError"
    /\ unit.ret.log = <<>>
    /\ unit.ret.state = make_response_parser.state
    /\ unit.ret.current = unit.kind
    /\ unit.ret.h = [make_response_parser.h EXCEPT
                       ![unit.kind] = StubHandler(unit.kind, FALSE)]

\* C11: a handler not done returned a whole Report frame as its remainder, and
\* the call raised RuntimeError
C11_Witness ==
  /\ unit.op = "resume" /\ ~unit.done /\ unit.rem = OP_RESP_VOLUME_CHANGE1
  /\ unit.ret.err = "RuntimeError"

\* C12: volume round trip.  For every integer p in 0..100,
\* code_to_hfn(convert_pct(p)) returns str(p).
C12_VolumeRoundTrip ==
  (unit.op = "round_trip" /\ unit.val \in 0..100) =>
    unit.ret = [err |-> "none", str |-> PyStr(unit.val)]

\* C12: the round trip of 21, the first percent of the third segment, gave "21"
C12_Witness ==
  unit.op = "round_trip" /\ unit.val = 21 /\ unit.ret.str = <<50, 49>>

\* the number a string of two uppercase hex digits writes, -1 for any other string
UpperHexValue(s) ==
  IF Len(s) = 2 /\ \A i \in 1..2 : s[i] \in (48..57) \cup (65..70)
    THEN 16 * (IF s[1] <= 57 THEN s[1] - 48 ELSE s[1] - 55)
         + (IF s[2] <= 57 THEN s[2] - 48 ELSE s[2] - 55)
    ELSE -1

\* C13: convert_pct is monotonically non-decreasing.  For integers p <= q in
\* 0..100 the hex value of convert_pct(p) is at most that of convert_pct(q).
C13_ConvertPctMonotone ==
  (unit.op = "convert_pct" /\ unit.prev \in 0..100 /\ unit.val \in 0..100
     /\ unit.prev <= unit.val) =>
    /\ UpperHexValue(unit.prev_ret) >= 0
    /\ UpperHexValue(unit.prev_ret) <= UpperHexValue(unit.ret)

\* C13: convert_pct was called on 40 and then on 41, across a segment boundary
C13_Witness ==
  /\ unit.op = "convert_pct" /\ unit.prev = 40 /\ unit.val = 41
  /\ unit.prev_ret = <<66, 50>> /\ unit.ret = <<66, 51>>

\* the piecewise reference of the percent-to-code conversion
PctReference(p) ==
  IF p <= 0 THEN 0
  ELSE IF p <= 10 THEN 44 + (p - 1) * 6
  ELSE IF p <= 20 THEN 98 + (p - 10) * 4
  ELSE IF p <= 40 THEN 138 + (p - 20) * 2
  ELSE IF p <= 100 THEN 178 + (p - 40)
  ELSE 238

\* C14: convert_pct equals the piecewise reference for every integer p, and its
\* result is exactly two uppercase hex digits writing a number in 00..EE.
C14_ConvertPctReference ==
  unit.op = "convert_pct" =>
    /\ UpperHexValue(unit.ret) = PctReference(unit.val)
    /\ UpperHexValue(unit.ret) \in 0..238

\* C14: convert_pct saturated: it was called on a percent above 100 and gave "EE"
C14_Witness ==
  unit.op = "convert_pct" /\ unit.val > 100 /\ unit.ret = <<69, 69>>

\* the number a two-hex-digit code writes, in either case of the letters
CodeNumber(code) == 16 * HexVal(code[1]) + HexVal(code[2])

\* the piecewise reference of the code-to-percent conversion
CodeReference(n) ==
  IF n >= 238 THEN 100
  ELSE IF n >= 179 THEN n - 178 + 40
  ELSE IF n >= 140 THEN ((n - 138) \div 2) + 20
  ELSE IF n >= 102 /\ n <= 138 THEN ((n - 98) \div 4) + 10
  ELSE IF n >= 44 /\ n <= 98 THEN ((n - 44) \div 6) + 1
  ELSE 0

\* C15: code_to_hfn equals the piecewise reference for every two-hex-digit
\* code, and its result is the decimal string of an integer in 0..100.
C15_CodeToHfnReference ==
  unit.op = "code_to_hfn" =>
    /\ unit.ret = [err |-> "none", str |-> PyStr(CodeReference(CodeNumber(unit.code)))]
    /\ CodeReference(CodeNumber(unit.code)) \in 0..100

\* C15: code_to_hfn floored: "8D" (141) gave "21"
C15_Witness ==
  unit.op = "code_to_hfn" /\ unit.code = <<56, 68>> /\ unit.ret.str = <<50, 49>>

\* the attribute a command-id selects and the characters of the response-data
\* it takes ("power" takes a code of one character, see C17); <<>> for an
\* unknown command-id
ReportReference(rcmd, rdata) ==
  CASE rcmd = <<48, 48>> -> << <<"status", <<rdata[2]>> >> >>
    [] rcmd = <<48, 49>> -> << <<"status", <<119, 97, 114, 110, 105, 110, 103>> >> >>
    [] rcmd = <<50, 49>> -> << <<"input", <<rdata[2]>> >> >>
    [] rcmd = <<50, 54>> -> << <<"volume", rdata>> >>
    [] rcmd = <<50, 56>> -> << <<"program", <<rdata[1]>> >> >>
    [] rcmd = <<66, 48>> -> << <<"beam", <<rdata[2]>> >> >>
    [] OTHER -> <<>>

\* a Report frame was fed whose response-data has no incomplete-response byte
CompleteReportFed == unit.op = "report" /\ unit.rdata[2] \notin IncompleteBytes

\* C16: for a complete Report frame (of ASCII characters) emit_changes makes one
\* update_state call that updates at most one attribute, selected by the
\* command-id: "00" status from the second character, "01" status "warning",
\* "20" power, "21" input from the second character, "26" volume as the two
\* characters, "28" program from the first character, "B0" beam from the second
\* character; any other command-id updates no attribute and raises nothing.
C16_ReportSelectsOneAttribute ==
  CompleteReportFed =>
    /\ Len(unit.ret.log) = 1
    /\ unit.ret.log[1].frame = <<STX, 49, 48>> \o unit.rcmd \o unit.rdata \o <<ETX>>
    /\ Len(unit.ret.log[1].kwargs) <= 1
    /\ IF unit.rcmd = <<50, 48>>
         THEN /\ Len(unit.ret.log[1].kwargs) = 1
              /\ unit.ret.log[1].kwargs[1][1] = "power"
         ELSE unit.ret.log[1].kwargs = ReportReference(unit.rcmd, unit.rdata)
    /\ \A a \in DOMAIN unit.ret.state :
         unit.ret.state[a] = KwGet(unit.ret.log[1].kwargs, a, 1)
    /\ ReportReference(unit.rcmd, unit.rdata) = <<>> /\ unit.rcmd # <<50, 48>> =>
         /\ unit.ret.err = "none"
         /\ unit.ret.state = make_response_parser.state

\* C16: the frame with command-id "26" and response-data "B2" gave the one
\* update volume = "B2"
C16_Witness ==
  /\ unit.op = "report" /\ unit.rcmd = <<50, 54>> /\ unit.rdata = <<66, 50>>
  /\ unit.ret.log[1].kwargs = << <<"volume", <<66, 50>> >> >>
  /\ unit.ret.state["volume"] = <<66, 50>>

RECURSIVE LastConfiguration(_, _)
LastConfiguration(log, k) ==
  IF k = 0 THEN 0
  ELSE IF log[k].handler = "ConfigurationCommand" THEN k
  ELSE LastConfiguration(log, k - 1)

\* the data length a Configuration frame declares in its two-hex-digit length
\* field, -1 when the frame has no such field
DeclaredLen(frame) ==
  IF Len(frame) >= 9 /\ HexVal(frame[8]) >= 0 /\ HexVal(frame[9]) >= 0
    THEN 16 * HexVal(frame[8]) + HexVal(frame[9])
    ELSE -1

\* the length a layout with a data field of n bytes gives the whole frame
TotalLen(n) == 1 + 5 + 1 + 2 + n + 2 + 1

\* the claim of C18 for one frame and the data length left in the layout
OnlyClampsDown(frame, data_len) ==
  IF TotalLen(DeclaredLen(frame)) > Len(frame)
    THEN data_len = max_data_len /\ data_len <= DeclaredLen(frame)
    ELSE data_len = DeclaredLen(frame)

\* C18 (as claimed): the length fixup of a Configuration frame only clamps down.
\* After a frame whose declared data length makes the layout longer than the
\* frame observed, the data field length is 144 and not larger than the declared
\* length; after a frame whose declared length fits, it is the declared length.
C18_FixupOnlyClampsDown ==
  LET k == LastConfiguration(parser.log, Len(parser.log))
  IN (k > 0 /\ DeclaredLen(parser.log[k].frame) >= 0) =>
       OnlyClampsDown(parser.log[k].frame,
                      parser.h["ConfigurationCommand"].cmd_layout["data"])

\* the index of the first terminator or incomplete-response byte of a chunk,
\* 0 when it has none
FirstTerminator(data) ==
  IF \E i \in 1..Len(data) : data[i] \in Terminators
    THEN CHOOSE i \in 1..Len(data) :
           data[i] \in Terminators /\ \A j \in 1..(i - 1) : data[j] \notin Terminators
    ELSE 0

\* C19 (as claimed): the consume contract of a handler.  consume appends the
\* bytes of the chunk up to and including the first terminator (or sentinel) to
\* the buffer, parses that buffer and returns exactly the bytes after the
\* terminator, in order; a chunk without a terminator is buffered whole and the
\* remainder returned is empty.
C19_ConsumeContract ==
  unit.op = "consume" =>
    /\ unit.ret.err = "none"
    /\ IF FirstTerminator(unit.data) = 0
         THEN /\ unit.ret.h.buf = unit.before.buf \o unit.data
              /\ unit.ret.remaining = <<>>
         ELSE /\ unit.ret.frame =
                   unit.before.buf \o SubSeq(unit.data, 1, FirstTerminator(unit.data))
              /\ unit.ret.remaining =
                   SubSeq(unit.data, FirstTerminator(unit.data) + 1, Len(unit.data))

\* C20: done() of a handler.  After a consume call done() is True exactly when
\* the call observed a terminator or sentinel and the field parsing ran to its
\* end; it is False while a frame is partially accumulated, also after the first
\* bytes of a frame that follows a completed one; and whenever done() is True
\* the buffer is empty.  (A parse that raises leaves done() False and the
\* buffer as it was parsed.)
C20_DoneExactlyAfterParse ==
  unit.op = "consume" =>
    /\ unit.ret.h.completed <=> (FirstTerminator(unit.data) # 0 /\ unit.ret.err = "none")
    /\ unit.ret.h.completed => unit.ret.h.buf = <<>>
    /\ FirstTerminator(unit.data) = 0 =>
         /\ ~unit.ret.h.completed
         /\ unit.ret.h.buf = unit.before.buf \o unit.data
    /\ unit.ret.err # "none" =>
         unit.ret.h.buf =
           unit.before.buf \o SubSeq(unit.data, 1, FirstTerminator(unit.data))

\* C20: a handler that was done() took the first bytes of the next frame and
\* is not done()
C20_Witness ==
  /\ unit.op = "consume" /\ unit.before.completed /\ unit.before.buf = <<>>
  /\ FirstTerminator(unit.data) = 0
  /\ ~unit.ret.h.completed /\ unit.ret.h.buf = unit.data

(***************************************************************************)
(* The commands sent to the device                                         *)
(***************************************************************************)
\* a command was built by OperationCommand.cmd or SystemCommand.cmd
CmdBuilt == unit.op \in {"OperationCommand.cmd", "SystemCommand.cmd"}

\* OperationCommand.cmd was called with the one keyword key
OperationWith(key) == unit.op = "OperationCommand.cmd" /\ DOMAIN unit.kwargs = {key}

\* STX, one sub-switch byte ('0' or '8'), a payload, ETX
Enveloped(cmd) ==
  /\ Len(cmd) >= 4
  /\ cmd[1] = 2
  /\ cmd[2] \in {48, 56}
  /\ cmd[Len(cmd)] = 3
  /\ \A i \in 3..(Len(cmd) - 1) : cmd[i] \notin {2, 3}

\* C21: every command OperationCommand.cmd or SystemCommand.cmd returns is
\* STX, a sub-switch byte, the payload, ETX; power '1' is STX '0' '787E' ETX,
\* power '0' STX '0' '787F' ETX, program '0' STX '0' '789B' ETX, program '3'
\* STX '0' '7EFB' ETX, and the absolute volume code c STX '8' '30' c ETX
C21_CommandEnvelope ==
  CmdBuilt =>
    /\ unit.ret # None => Enveloped(unit.ret)
    /\ OperationWith("power") /\ unit.kwargs["power"] = <<49>>
         => unit.ret = <<2, 48, 55, 56, 55, 69, 3>>
    /\ OperationWith("power") /\ unit.kwargs["power"] = <<48>>
         => unit.ret = <<2, 48, 55, 56, 55, 70, 3>>
    /\ OperationWith("program") /\ unit.kwargs["program"] = <<48>>
         => unit.ret = <<2, 48, 55, 56, 57, 66, 3>>
    /\ OperationWith("program") /\ unit.kwargs["program"] = <<51>>
         => unit.ret = <<2, 48, 55, 69, 70, 66, 3>>
    /\ unit.op = "SystemCommand.cmd" /\ "volume" \in DOMAIN unit.kwargs
         => unit.ret = <<2, 56, 51, 48>> \o unit.kwargs["volume"] \o <<3>>

\* C21 witness: the absolute volume 'B2' was encoded
C21_Witness ==
  /\ unit.op = "SystemCommand.cmd"
  /\ "volume" \in DOMAIN unit.kwargs
  /\ unit.kwargs["volume"] = <<66, 50>>
  /\ unit.ret = <<2, 56, 51, 48, 66, 50, 3>>

\* the keys of the lookup table of each intent, as the source lists them
TableKeys(key) ==
  CASE key = "input" -> {<<48>>, <<49>>, <<50>>, <<51>>, <<52>>, <<54>>, <<55>>, <<56>>}
    [] key = "power" -> {<<48>>, <<49>>}
    [] key = "program" -> {<<49>>, <<50>>, <<51>>, <<52>>, <<53>>, <<54>>, <<55>>}
    [] key = "beam" -> {<<48>>, <<49>>, <<50>>, <<51>>, <<53>>, <<54>>}

Intents == {"input", "power", "program", "beam"}

\* OperationCommand.cmd was called with one selector absent from its table
AbsentSelector ==
  /\ unit.op = "OperationCommand.cmd"
  /\ \E key \in Intents :
       DOMAIN unit.kwargs = {key} /\ unit.kwargs[key] \notin TableKeys(key)

\* '0', 'off' and 'disable' in any letter case
ProgramOffWord(v) ==
  [i \in 1..Len(v) |-> IF v[i] \in 65..90 THEN v[i] + 32 ELSE v[i]]
    \in {<<48>>, <<111, 102, 102>>, <<100, 105, 115, 97, 98, 108, 101>>}

\* C22 as stated: a selector absent from the lookup table of its intent
\* gives None, and SystemCommand.cmd gives None when no volume is given
C22_AbsentGivesNone ==
  /\ AbsentSelector => unit.ret = None
  /\ unit.op = "SystemCommand.cmd" /\ "volume" \notin DOMAIN unit.kwargs
       => unit.ret = None

\* C22: a selector absent from the lookup table of its intent gives None,
\* except the program selectors '0', 'off' and 'disable' in any letter case,
\* which give STX '0' '789B' ETX; SystemCommand.cmd gives None when no
\* volume is given
C22_AbsentGivesNoneButProgramOff ==
  /\ AbsentSelector =>
       IF OperationWith("program") /\ ProgramOffWord(unit.kwargs["program"])
         THEN unit.ret = <<2, 48, 55, 56, 57, 66, 3>>
         ELSE unit.ret = None
  /\ unit.op = "SystemCommand.cmd" /\ "volume" \notin DOMAIN unit.kwargs
       => unit.ret = None

\* C22 witness: the input selector '5' (DOCK), absent from input_map, gave None
C22_Witness ==
  /\ OperationWith("input")
  /\ unit.kwargs["input"] = <<53>>
  /\ unit.ret = None

\* C23: OperationCommand.cmd(volume=d) is the increase command (781E) for
\* d > 0, the decrease command (781F) for d < 0 and None for d = 0
C23_VolumeNudgeBySign ==
  OperationWith("volume") =>
    unit.ret = (IF unit.kwargs["volume"] > 0 THEN <<2, 48, 55, 56, 49, 69, 3>>
                ELSE IF unit.kwargs["volume"] < 0 THEN <<2, 48, 55, 56, 49, 70, 3>>
                ELSE None)

\* C23 witness: a delta of zero gave no command
C23_Witness ==
  /\ OperationWith("volume")
  /\ unit.kwargs["volume"] = 0
  /\ unit.ret = None

(***************************************************************************)
(* The Ysp4000 called directly                                             *)
(***************************************************************************)
UpdateCalled == unit.op = "update_state"

\* the update_state call carried key=value
Carries(key, value) == \E i \in 1..Len(unit.kwargs) : unit.kwargs[i] = <<key, value>>

\* the 'on' property
on == ysp.parser.state["power"] = <<49>>

ChangedKeys ==
  {unit.kwargs[i][1] : i \in {j \in 1..Len(unit.kwargs) :
                                unit.before.state[unit.kwargs[j][1]] # unit.kwargs[j][2]}}

\* the names of hfn.py for the codes of the calls made here
ExpectedName(key, code) ==
  CASE key = "status" /\ code = <<48>> -> <<79, 75>>                        \* OK
    [] key = "status" /\ code = <<50>> -> <<83, 116, 97, 110, 100, 98, 121>>  \* Standby
    [] key = "power" /\ code = <<48>> -> <<79, 102, 102>>                   \* Off
    [] key = "power" /\ code = <<49>> -> <<79, 110>>                        \* On
    [] key = "input" /\ code = <<50>> -> <<65, 85, 88, 49>>                 \* AUX1
    [] key = "volume" /\ code = <<66, 50>> -> <<52, 48>>                    \* 40
    [] OTHER -> None

\* the keyword arguments a callback is to receive
ExpectedUpdates ==
  [key \in ChangedKeys |->
     ExpectedName(key, unit.kwargs[CHOOSE i \in 1..Len(unit.kwargs) :
                                     unit.kwargs[i][1] = key][2])]

\* cb was called exactly once by the last update_state, with ExpectedUpdates
InvokedOnce(cb) ==
  /\ cb \in DOMAIN ysp.invoked
  /\ ysp.invoked[cb] = <<ExpectedUpdates>>

\* C25 (as claimed): on every update_state call each registered callback is
\* invoked exactly once, with the attributes whose new value differs from
\* the stored one under their human-friendly names and no other attribute;
\* an attribute re-sent unchanged keeps its stored value
C25_CallbacksGetChanges ==
  UpdateCalled =>
    /\ \A cb \in unit.before.cbs : InvokedOnce(cb)
    /\ \A i \in 1..Len(unit.kwargs) :
         unit.before.state[unit.kwargs[i][1]] = unit.kwargs[i][2]
           => ysp.parser.state[unit.kwargs[i][1]] = unit.kwargs[i][2]

\* C26 (as claimed): register_state_update_cb(None) leaves the callbacks as
\* they are; after unregister_state_update_cb(cb) cb is not registered, and
\* an update_state call invokes every registered callback once and no other
C26_RegistrationContract ==
  /\ unit.op = "register" /\ unit.cb = CbNone => ysp.cbs = unit.before.cbs
  /\ unit.op = "unregister" => unit.cb \notin ysp.cbs
  /\ UpdateCalled =>
       /\ ysp.cbs = unit.before.cbs
       /\ \A cb \in ysp.cbs : InvokedOnce(cb)
       /\ DOMAIN ysp.invoked \subseteq ysp.cbs

(***************************************************************************)
(* The operations of the Ysp4000 and their decorator                       *)
(***************************************************************************)
Tr == ysp.trace

\* the ready handshake 0x11 0x00 0x00 0x00 0x03
HandshakeBytes == <<17, 0, 0, 0, 3>>

EnteredAt(i) == Tr[i].ev = "enter"

HandshakeWrittenAt(i) == Tr[i].ev = "write" /\ Tr[i].data = HandshakeBytes

CommandWrittenAt(i) == Tr[i].ev = "write" /\ Tr[i].data # HandshakeBytes

\* C27: a decorated operation entered with _ready False writes the ready
\* handshake and reads and parses the response before its function is
\* called and before any command of its own is written; entered with _ready
\* True it calls its function at once, and the handshake is written nowhere
\* else
C27_HandshakeBeforeCommand ==
  \A i \in 1..Len(Tr) :
    /\ EnteredAt(i) /\ ~Tr[i].ready =>
         /\ i + 1 <= Len(Tr) /\ HandshakeWrittenAt(i + 1)
         /\ i + 2 <= Len(Tr) => Tr[i + 2].ev = "read"
         /\ i + 3 <= Len(Tr) /\ Tr[i + 2].data = READY_RESP_POWERED_ON =>
              Tr[i + 3].state["power"] = <<49>> /\ Tr[i + 3].ready
    /\ EnteredAt(i) /\ Tr[i].ready => i + 1 <= Len(Tr) /\ Tr[i + 1].ev = "call"
    /\ HandshakeWrittenAt(i) => i > 1 /\ EnteredAt(i - 1) /\ ~Tr[i - 1].ready
    /\ CommandWrittenAt(i) =>
         \E k \in 1..(i - 1) : Tr[k].ev = "call" /\ Tr[k].op = Tr[i].op

\* C27 witness: set_3beam, entered when not ready, wrote the handshake, read
\* the Configuration frame of a powered-on device and then wrote its command
C27_Witness ==
  /\ Len(Tr) >= 5
  /\ EnteredAt(1) /\ ~Tr[1].ready /\ Tr[1].op = "set_3beam"
  /\ HandshakeWrittenAt(2)
  /\ Tr[3].ev = "read" /\ Tr[3].data = READY_RESP_POWERED_ON
  /\ Tr[4].ev = "call" /\ Tr[4].ready
  /\ Tr[5].ev = "write" /\ Tr[5].data = <<2, 48, 55, 56, 67, 52, 3>>

\* C28 (as claimed): between the response to the handshake and the call of
\* the decorated function a system command (sub-switch '8') is written
C28_ReportEnableWritten ==
  \A i \in 1..Len(Tr) :
    (EnteredAt(i) /\ ~Tr[i].ready /\ i + 3 <= Len(Tr)) =>
      /\ Tr[i + 3].ev = "write"
      /\ Tr[i + 3].data[1] = 2
      /\ Tr[i + 3].data[2] = 56

\* everything after event k of the trace is a read_all that returned nothing
NothingReceivedAfter(k) ==
  \A j \in (k + 1)..Len(Tr) : Tr[j].ev = "read" /\ Tr[j].data = <<>>

\* C29: power_off called while the stored power is on writes STX '0' '787F'
\* ETX and returns with the stored power off and _ready False, with no read
\* in between; as long as nothing is received afterwards _ready stays False,
\* so the next decorated operation is entered not ready
C29_PowerOffInPlace ==
  \A k \in 1..Len(Tr) :
    (Tr[k].ev = "call" /\ Tr[k].op = "power_off" /\ Tr[k].state["power"] = <<49>>) =>
      /\ k + 2 <= Len(Tr)
      /\ Tr[k + 1].ev = "write" /\ Tr[k + 1].data = <<2, 48, 55, 56, 55, 70, 3>>
      /\ Tr[k + 2].ev = "return" /\ Tr[k + 2].op = "power_off"
      /\ Tr[k + 2].state["power"] = <<48>> /\ ~Tr[k + 2].ready
      /\ NothingReceivedAfter(k + 2) =>
           ysp.parser.state["power"] = <<48>> /\ ~ysp.parser.ready

\* C29 witness: power_off was called ready and on, and its call is over
\* without any reply
C29_Witness ==
  /\ Idle
  /\ Len(Tr) >= 4
  /\ EnteredAt(1) /\ Tr[1].ready /\ Tr[1].op = "power_off"
  /\ Tr[2].ev = "call" /\ Tr[2].state["power"] = <<49>>
  /\ Tr[3].ev = "write"
  /\ Tr[4].ev = "return"
  /\ NothingReceivedAfter(4)
  /\ ~ysp.parser.ready

\* the code an operation is to select
TargetCode(op) ==
  CASE op = "set_5beam" -> <<48>> [] op = "set_3beam" -> <<50>> [] op = "set_stereo" -> <<51>>
    [] op = "set_input_tv" -> <<48>> [] op = "set_input_aux1" -> <<50>>
    [] op = "set_dsp_off" -> <<48>> [] op = "set_dsp_cinema" -> <<51>>
    [] op = "set_dsp_music" -> <<53>>

TargetKey(op) ==
  CASE op \in {"set_5beam", "set_3beam", "set_stereo"} -> "beam"
    [] op \in {"set_input_tv", "set_input_aux1"} -> "input"
    [] op \in {"set_dsp_off", "set_dsp_cinema", "set_dsp_music"} -> "program"

\* the set_input_*, set_dsp_*, set_*beam and set_stereo operations
Selecting ==
  {"set_5beam", "set_3beam", "set_stereo", "set_input_tv", "set_input_aux1",
   "set_dsp_off", "set_dsp_cinema", "set_dsp_music"}

\* op asks for what state already holds
Redundant(op, state) ==
  \/ op = "power_on" /\ state["power"] = <<49>>
  \/ op = "power_off" /\ state["power"] # <<49>>
  \/ op \in Selecting /\ state[TargetKey(op)] = TargetCode(op)

\* C30: the function of power_on called when the device is on, of power_off
\* when it is not on, and of a set_input_*, set_dsp_*, set_*beam or
\* set_stereo operation whose target code is the stored attribute, returns
\* without writing to the port and leaves the stored state and _ready as
\* they were
C30_NoRedundantCommand ==
  \A k \in 1..Len(Tr) :
    (Tr[k].ev = "call" /\ Redundant(Tr[k].op, Tr[k].state)) =>
      /\ k + 1 <= Len(Tr)
      /\ Tr[k + 1].ev = "return" /\ Tr[k + 1].op = Tr[k].op
      /\ Tr[k + 1].state = Tr[k].state
      /\ Tr[k + 1].ready = Tr[k].ready

\* C30 witness: set_dsp_music was called with the program already Music
\* Concert Hall and wrote nothing at all
C30_Witness ==
  /\ Len(Tr) >= 3
  /\ EnteredAt(1) /\ Tr[1].op = "set_dsp_music" /\ Tr[1].ready
  /\ Tr[2].ev = "call" /\ Tr[2].state["program"] = <<53>>
  /\ Tr[3].ev = "return"
  /\ \A i \in 1..Len(Tr) : Tr[i].ev # "write"

\* C31 (as claimed): the function of set_stereo, called while the stored beam
\* is not Stereo ('3'), writes the command that selects the Stereo beam mode,
\* STX '0' '7850' ETX
C31_StereoSelectsStereo ==
  \A k \in 1..Len(Tr) :
    (Tr[k].ev = "call" /\ Tr[k].op = "set_stereo" /\ Tr[k].state["beam"] # <<51>>) =>
      /\ k + 1 <= Len(Tr)
      /\ Tr[k + 1].ev = "write"
      /\ Tr[k + 1].data = <<2, 48, 55, 56, 53, 48, 3>>

\* C32 (as claimed): OperationCommand.cmd(beam='4'), 5ch stereo, returns the
\* control command STX '0' '7EFF' ETX
C32_Beam4Gives7EFF ==
  (OperationWith("beam") /\ unit.kwargs["beam"] = <<52>>) =>
    unit.ret = <<2, 48, 55, 69, 70, 70, 3>>

\* the volume code volume_up and volume_down are to start from: the stored
\* one, '00' while the volume is unknown
CurrentCode(state) == IF state["volume"] = None THEN <<48, 48>> ELSE state["volume"]

\* the absolute-volume command for min(current% + 3, 100) or max(current% - 3, 0)
StepCommand(op, state) ==
  <<2, 56, 51, 48>>
    \o convert_pct(volume_target(op, code_to_hfn_str(code_to_hfn(CurrentCode(state))).str))
    \o <<3>>

\* C33 (as claimed): volume_up and volume_down, called with the stored state
\* s, go on to set_volume_pct without raising, and the command then written
\* is the absolute-volume command for min(current% + 3, 100), respectively
\* max(current% - 3, 0), current% being code_to_hfn of the stored code, or of
\* '00' while the volume is unknown
C33_VolumeStep ==
  \A k \in 1..Len(Tr) :
    (Tr[k].ev = "call" /\ Tr[k].op \in {"volume_up", "volume_down"}) =>
      /\ k + 1 <= Len(Tr)
      /\ Tr[k + 1].ev = "enter" /\ Tr[k + 1].op = "set_volume_pct"
      /\ \A j \in (k + 1)..Len(Tr) :
           (Tr[j].op = "set_volume_pct" /\ CommandWrittenAt(j)) =>
             Tr[j].data = StepCommand(Tr[k].op, Tr[k].state)

\* the handler in progress, when there is one
InProgress == parser.current # "None"

\* the buffer of the handler in progress
Buffered == parser.h[parser.current].buf

\* C34: with the Configuration and Report handlers, whatever non-empty
\* chunks the stream is cut in, ResponseParser.consume never raises the
\* RuntimeError "incomplete handler has not consumed all data": a handler
\* left in progress by a call that returned has met no terminator in the
\* chunk and has taken the chunk up to its last byte
C34_NoDesync ==
  /\ parser.err # "RuntimeError"
  /\ (InProgress /\ parser.err = "none") =>
       /\ ~parser.h[parser.current].completed
       /\ Buffered # <<>>
       /\ Buffered[Len(Buffered)] = sent[pos]
       /\ ~is_end(parser.current, sent[pos])

\* C34 witness: a frame is in progress after chunks of two bytes, all of
\* whose bytes its handler took
C34_Witness ==
  /\ InProgress
  /\ parser.err = "none"
  /\ pos >= 4
  /\ Buffered = SubSeq(sent, 1, pos)

\* C35 (as claimed): no call of ResponseParser.consume ends in the
\* start-byte assertion of YspResponseBase.consume, and between the calls
\* current is a handler only while that handler holds a non-empty buffer of
\* a frame it has not completed
C35_StartByteAssertion ==
  /\ parser.err # "AssertionError"
  /\ InProgress =>
       /\ Buffered # <<>>
       /\ ~parser.h[parser.current].completed

\* a call of ResponseParser.consume is in its while loop
InLoop == unit.op = "while"

\* what is left to do in the loop: the bytes to scan, then the handlers to try
Variant(u) == Len(u.data) * (Len(handlers) + 1) + (Len(handlers) + 1 - u.i)

\* C36: ResponseParser.consume terminates on every non-empty chunk.  Each
\* resume that returns has taken at least one byte, so the resume calls made
\* and the bytes left never exceed the bytes of the chunk (a resume that
\* raises ends the call and is the last one), and every pass of the while
\* loop that does not leave it brings the call nearer to its end: fewer
\* bytes to scan, or the same bytes and fewer handlers to try
C36_ConsumeTerminates ==
  /\ [](unit.op \in {"while", "returned"} =>
          /\ unit.resumed <= unit.n
          /\ parser.err = "none" => unit.resumed + Len(unit.data) <= unit.n
          /\ unit.i <= Len(handlers) + 1)
  /\ [][(InLoop /\ unit'.op = "while") => Variant(unit') < Variant(unit)]_unit

\* C36 witness: one call took a chunk of two back-to-back frames, resumed a
\* handler for each and returned
C36_Witness ==
  /\ unit.op = "returned"
  /\ unit.resumed = 2
  /\ unit.data = <<>>
  /\ unit.n = Len(sent)
  /\ Len(parser.log) = 2

\* C37 (as claimed): code_to_hfn is non-decreasing in the code: the percent
\* of a two-hex-digit code is not above the percent of any code that is not
\* below it
C37_CodeToHfnMonotone ==
  unit.op = "code_to_hfn" =>
    \A b \in Codes :
      CodeNumber(unit.code) <= CodeNumber(b) =>
        PyInt10(unit.ret.str) <= PyInt10(code_to_hfn_str(code_to_hfn(b)).str)

\* the volume code of the absolute-volume command STX '8' '30' code ETX
SentCode(cmd) == SubSeq(cmd, 5, 6)

\* C38 (as claimed): for every stored volume code, volume_up writes an
\* absolute-volume command whose code is not below the stored one, and
\* volume_down one whose code is not above it
C38_VolumeStepDirection ==
  unit.op \in {"volume_up", "volume_down"} =>
    /\ \E i \in 1..Len(unit.ret) : unit.ret[i].ev = "write"
    /\ \A i \in 1..Len(unit.ret) :
         unit.ret[i].ev = "write" =>
           IF unit.op = "volume_up"
             THEN CodeNumber(SentCode(unit.ret[i].data)) >= CodeNumber(unit.code)
             ELSE CodeNumber(SentCode(unit.ret[i].data)) <= CodeNumber(unit.code)

\* C39 (as claimed): whatever frames were decoded and whatever operations
\* were called, while the stored power is off ('0') _ready is False
C39_PowerOffNotReady ==
  ysp.parser.state["power"] = <<48>> => ~ysp.parser.ready

====
